---- MODULE Spec2Model ----
(***************************************************************************)
(* The backend request pipeline of the portfolio server (server.ts):       *)
(* authenticateToken, the route handlers and the statements they send to   *)
(* the relational store.  A request is a sequence of segments, one per     *)
(* `await pool.query(...)`: each action executes the awaited statement     *)
(* against the store and runs the handler code up to the next await.       *)
(***************************************************************************)
EXTENDS Integers, Sequences, FiniteSets, TLC

VARIABLES db, disk, reqs, slots, nreq, nextId

vars == <<db, disk, reqs, slots, nreq, nextId>>

(* Number of requests one behaviour receives. *)
MaxRequests == 1

(* Number of requests in flight at once in the concurrent workloads. *)
MaxClients == 2

(* Number of times the sequential workload sends a follow-up request. *)
MaxFollowUps == 1

(***************************************************************************)
(* Values.  A JSON/JS value is a token; NULL is null, UNDEF is a key that  *)
(* is absent (undefined).                                                  *)
(***************************************************************************)
NULL == "null"
UNDEF == "undefined"

JsArrays == {"[]", "[img]"}
JsNumbers == {"#5"}
JsObjects == {"{k:v}"}
IsString(v) == v \notin ({NULL, UNDEF} \cup JsArrays \cup JsNumbers \cup JsObjects)

(* JS truthiness, as used by `x ? a : b`: arrays and objects are truthy. *)
Truthy(v) == v \notin {NULL, UNDEF, ""}

(* JSON.stringify of the objects the handlers serialise. *)
JsonStringify(v) ==
  CASE v = "{k:v}" -> "{\"k\":\"v\"}"
    [] v = "[img]" -> "[\"img\"]"
    [] v = "[]" -> "[]"
    [] OTHER -> v

(* the object literals of initialData in the analytics handler, and their *)
(* JSON.stringify                                                          *)
InitialPopularProjects == "{popular:[]}"
InitialInteractionData == "{views:0,comments:0,contacts:0}"

StringifyInitial(v) ==
  CASE v = InitialPopularProjects -> "{\"popular\":[]}"
    [] v = InitialInteractionData -> "{\"views\":0,\"comments\":0,\"contacts\":0}"
    [] OTHER -> JsonStringify(v)

(* JSON.parse of a text; of anything else it parses String(value), which   *)
(* for an object is "[object Object]": a SyntaxError                       *)
JsonParse(text) ==
  CASE text = "{\"popular\":[]}" -> InitialPopularProjects
    [] text = "{\"views\":0,\"comments\":0,\"contacts\":0}" -> InitialInteractionData
    [] text = "{\"popular\": [\"project1\"]}" -> "{popular:[project1]}"
    [] text = "{\"popular\": [\"project2\"]}" -> "{popular:[project2]}"
    [] text = "{\"clicks\": 50, \"likes\": 30}" -> "{clicks:50,likes:30}"
    [] text = "{\"clicks\": 70, \"shares\": 20}" -> "{clicks:70,shares:20}"
    [] OTHER -> "SyntaxError"

(* JSON.stringify({ images: v }) and JSON.parse(text).images *)
StringifyImages(v) ==
  CASE v = "[img]" -> "{\"images\":[\"img\"]}"
    [] v = "[]" -> "{\"images\":[]}"
    [] OTHER -> "{\"images\":" \o v \o "}"

ParseImages(text) ==
  CASE text = "{\"images\":[\"img\"]}" -> "[img]"
    [] text = "{\"images\":[]}" -> "[]"
    [] text = "{\"images\": [\"https://picsum.photos/seed/project1/200\"]}" -> "[seed1]"
    [] text = "{\"images\": [\"https://picsum.photos/seed/project2/200\"]}" -> "[seed2]"
    [] OTHER -> UNDEF

(* node-postgres parameter conversion: undefined -> NULL, object -> JSON text *)
PgParam(v) ==
  CASE v = UNDEF -> NULL
    [] v \in JsObjects -> JsonStringify(v)
    [] OTHER -> v

(* email.toLowerCase().trim() *)
LowerTrim(e) ==
  CASE e = "John.Doe@Example.com" -> "john.doe@example.com"
    [] e = "New@Example.com" -> "new@example.com"
    [] OTHER -> e

IsEmail(v) ==
  v \in {"john.doe@example.com", "jane.smith@example.com", "John.Doe@Example.com",
         "new@example.com", "New@Example.com", "c@example.com"}

IsUrl(v) == v \in {"https://example.com/x"}

(* new Date(v): the Date a value coerces to, "Invalid Date" when it has none *)
NewDate(v) ==
  CASE v = "2021-05-01" -> "Date(2021-05-01)"
    [] v = "2022-06-30" -> "Date(2022-06-30)"
    [] v = NULL -> "Date(epoch)"
    [] v = "#5" -> "Date(epoch+5ms)"
    [] OTHER -> "Invalid Date"

ToISOString(d) ==
  CASE d = "Date(2021-05-01)" -> "2021-05-01T00:00:00.000Z"
    [] d = "Date(2022-06-30)" -> "2022-06-30T00:00:00.000Z"
    [] d = "Date(epoch)" -> "1970-01-01T00:00:00.000Z"
    [] d = "Date(epoch+5ms)" -> "1970-01-01T00:00:00.005Z"
    [] OTHER -> "RangeError"

(* new Date().toISOString() at the time of the request *)
NowIso == "2026-01-01T00:00:00.000Z"

(***************************************************************************)
(* Validator: the zod schemas of schema.ts.  A schema maps each key to the *)
(* type of its value.                                                      *)
(***************************************************************************)
ZodOk(type, v) ==
  CASE type = "string" -> IsString(v)
    [] type = "string.nullable.optional" -> IsString(v) \/ v \in {NULL, UNDEF}
    [] type = "email" -> IsString(v) /\ IsEmail(v)
    [] type = "email.nullable.optional" -> (IsString(v) /\ IsEmail(v)) \/ v \in {NULL, UNDEF}
    [] type = "url.nullable.optional" -> (IsString(v) /\ IsUrl(v)) \/ v \in {NULL, UNDEF}
    [] type = "array.nullable.optional" -> v \in JsArrays \/ v \in {NULL, UNDEF}
    [] type = "record.nullable.optional" -> v \in JsObjects \/ v \in {NULL, UNDEF}
    [] type = "int.optional" -> v \in JsNumbers \/ v = UNDEF
    [] type = "date" -> NewDate(v) # "Invalid Date"
    [] type = "date.nullable.optional" -> v \in {NULL, UNDEF} \/ NewDate(v) # "Invalid Date"
    [] OTHER -> FALSE

ZodOut(type, v) ==
  CASE type = "date" -> NewDate(v)
    [] type = "date.nullable.optional" -> IF v \in {NULL, UNDEF} THEN v ELSE NewDate(v)
    [] OTHER -> v

(* schema.parse(obj): throws a ZodError unless every key validates *)
ParseOk(schema, obj) == \A f \in DOMAIN schema : ZodOk(schema[f], obj[f])
Parsed(schema, obj) == [f \in DOMAIN schema |-> ZodOut(schema[f], obj[f])]

createUserInputSchema ==
  [email |-> "email", password_hash |-> "string", name |-> "string.nullable.optional"]

updateUserProfileInputSchema ==
  [user_id |-> "string",
   profile_picture_url |-> "string.nullable.optional",
   cover_image_url |-> "string.nullable.optional",
   bio |-> "string.nullable.optional",
   contact_email |-> "email.nullable.optional",
   phone_number |-> "string.nullable.optional",
   social_media_links |-> "record.nullable.optional"]

createUserSettingsInputSchema ==
  [user_id |-> "string",
   color_scheme |-> "record.nullable.optional",
   chosen_template |-> "string.nullable.optional",
   font_selection |-> "string.nullable.optional"]

createProjectInputSchema ==
  [user_id |-> "string", title |-> "string",
   description |-> "string.nullable.optional",
   images |-> "array.nullable.optional",
   project_url |-> "url.nullable.optional"]

createSkillInputSchema ==
  [user_id |-> "string", skill_name |-> "string", proficiency_level |-> "int.optional"]

createExperienceTimelineInputSchema ==
  [user_id |-> "string", title |-> "string",
   description |-> "string.nullable.optional",
   start_date |-> "date", end_date |-> "date.nullable.optional"]

createTestimonialInputSchema ==
  [user_id |-> "string", client_name |-> "string", feedback |-> "string.nullable.optional"]

createBlogPostInputSchema ==
  [user_id |-> "string", title |-> "string", content |-> "string.nullable.optional"]

createCommentInputSchema ==
  [project_id |-> "string", user_name |-> "string.nullable.optional", content |-> "string"]

createVisitorMessageInputSchema ==
  [user_id |-> "string", visitor_email |-> "email.nullable.optional",
   visitor_message |-> "string"]

(* The five owned resource tables and the schema their handlers parse with. *)
Kinds == {"projects", "skills", "experience_timeline", "testimonials", "blog_posts"}

CreateSchema(kind) ==
  CASE kind = "projects" -> createProjectInputSchema
    [] kind = "skills" -> createSkillInputSchema
    [] kind = "experience_timeline" -> createExperienceTimelineInputSchema
    [] kind = "testimonials" -> createTestimonialInputSchema
    [] kind = "blog_posts" -> createBlogPostInputSchema

(* { key: pathValue, ...req.body }: a key of the body replaces the path's *)
Spread(key, pathValue, body) ==
  [body EXCEPT ![key] = IF body[key] = UNDEF THEN pathValue ELSE body[key]]

(***************************************************************************)
(* The store: one table per CREATE TABLE of the schema script, each a      *)
(* function from primary key to row, seeded as the script seeds it.        *)
(***************************************************************************)
SeedDb ==
  [users |->
     [u \in {"user1", "user2"} |->
        IF u = "user1"
        THEN [email |-> "john.doe@example.com", password_hash |-> "password123",
              name |-> "John Doe", created_at |-> "2023-10-05"]
        ELSE [email |-> "jane.smith@example.com", password_hash |-> "admin123",
              name |-> "Jane Smith", created_at |-> "2023-10-05"]],
   user_profiles |->
     [u \in {"user1", "user2"} |->
        IF u = "user1"
        THEN [profile_picture_url |-> "https://picsum.photos/seed/user1/200",
              cover_image_url |-> "https://picsum.photos/seed/user1cover/800/300",
              bio |-> "This is John Doe's bio.",
              contact_email |-> "john.contact@example.com",
              phone_number |-> "1234567890",
              social_media_links |-> "{\"twitter\": \"https://twitter.com/johndoe\"}"]
        ELSE [profile_picture_url |-> "https://picsum.photos/seed/user2/200",
              cover_image_url |-> "https://picsum.photos/seed/user2cover/800/300",
              bio |-> "This is Jane Smith's bio.",
              contact_email |-> "jane.contact@example.com",
              phone_number |-> "0987654321",
              social_media_links |-> "{\"twitter\": \"https://twitter.com/janesmith\"}"]],
   project_templates |-> {"template1", "template2"},
   user_settings |->
     [u \in {"user1", "user2"} |->
        IF u = "user1"
        THEN [color_scheme |-> "{\"background\": \"dark\"}",
              chosen_template |-> "template1", font_selection |-> "Arial"]
        ELSE [color_scheme |-> "{\"background\": \"light\"}",
              chosen_template |-> "template2", font_selection |-> "Helvetica"]],
   projects |->
     [p \in {"project1", "project2"} |->
        IF p = "project1"
        THEN [user_id |-> "user1", title |-> "Amazing Project",
              description |-> "This is a description of an amazing project.",
              images |-> "{\"images\": [\"https://picsum.photos/seed/project1/200\"]}",
              project_url |-> "https://example.com/amazing-project"]
        ELSE [user_id |-> "user2", title |-> "Fantastic Creation",
              description |-> "This is a description of a fantastic creation.",
              images |-> "{\"images\": [\"https://picsum.photos/seed/project2/200\"]}",
              project_url |-> "https://example.com/fantastic-creation"]],
   skills |->
     [k \in {"skill1", "skill2"} |->
        IF k = "skill1"
        THEN [user_id |-> "user1", skill_name |-> "Python", proficiency_level |-> "#8"]
        ELSE [user_id |-> "user1", skill_name |-> "JavaScript", proficiency_level |-> "#7"]],
   experience_timeline |->
     [e \in {"exp1", "exp2"} |->
        IF e = "exp1"
        THEN [user_id |-> "user1", title |-> "Software Engineer",
              description |-> "Worked on developing software solutions.",
              start_date |-> "2020-01-01", end_date |-> "2022-12-31"]
        ELSE [user_id |-> "user2", title |-> "Web Developer",
              description |-> "Created and maintained websites.",
              start_date |-> "2019-05-01", end_date |-> "2021-08-31"]],
   testimonials |->
     [t \in {"test1", "test2"} |->
        IF t = "test1"
        THEN [user_id |-> "user1", client_name |-> "Acme Corp",
              feedback |-> "John did a fantastic job on our project!"]
        ELSE [user_id |-> "user2", client_name |-> "Coding Inc",
              feedback |-> "Jane is a great developer and very professional."]],
   blog_posts |->
     [b \in {"post1", "post2"} |->
        IF b = "post1"
        THEN [user_id |-> "user1", title |-> "How to Code",
              content |-> "This blog post explains the basics of coding.",
              created_at |-> "2023-10-05"]
        ELSE [user_id |-> "user2", title |-> "A Guide to Web Development",
              content |-> "This post covers essential tips for web development.",
              created_at |-> "2023-10-05"]],
   comments |->
     [c \in {"comment1", "comment2"} |->
        IF c = "comment1"
        THEN [project_id |-> "project1", user_name |-> "Alice",
              content |-> "Great project!", created_at |-> "2023-10-05"]
        ELSE [project_id |-> "project2", user_name |-> "Bob",
              content |-> "Really impressive work.", created_at |-> "2023-10-05"]],
   visitor_messages |->
     [m \in {"message1", "message2"} |->
        IF m = "message1"
        THEN [user_id |-> "user1", visitor_email |-> "alice@example.com",
              visitor_message |-> "Inquiring about your services.",
              sent_at |-> "2023-10-05"]
        ELSE [user_id |-> "user2", visitor_email |-> "bob@example.com",
              visitor_message |-> "Interested in collaborating with you.",
              sent_at |-> "2023-10-05"]],
   analytics |->
     [a \in {"analytics1", "analytics2"} |->
        IF a = "analytics1"
        THEN [user_id |-> "user1", visit_count |-> 100,
              popular_projects |-> "{\"popular\": [\"project1\"]}",
              interaction_data |-> "{\"clicks\": 50, \"likes\": 30}"]
        ELSE [user_id |-> "user2", visit_count |-> 200,
              popular_projects |-> "{\"popular\": [\"project2\"]}",
              interaction_data |-> "{\"clicks\": 70, \"shares\": 20}"]]]

(* uuidv4(): the n-th identifier generated *)
Uuid(n) == "uuid-" \o ToString(n)

Without(table, id) == [x \in DOMAIN table \ {id} |-> table[x]]
With(table, id, row) == [x \in DOMAIN table \cup {id} |-> IF x = id THEN row ELSE table[x]]

(***************************************************************************)
(* Bearer credentials.  jwt.verify throws on a malformed token, a          *)
(* signature that does not match JWT_SECRET, and an expired token.         *)
(***************************************************************************)
NoToken == [form |-> "absent", sig |-> "-", exp |-> "-", sub |-> "-"]
MalformedToken == [form |-> "malformed", sig |-> "-", exp |-> "-", sub |-> "-"]
Jwt(sig, exp, sub) == [form |-> "jwt", sig |-> sig, exp |-> exp, sub |-> sub]

(* a subject whose users row does not exist (an account removed from the store) *)
GhostUser == "user-deleted"

JwtSign_OtherSecret(user_id) == Jwt("tampered", "fresh", user_id)

(* jwt.sign({ user_id, email }, JWT_SECRET, { expiresIn: '7d' }) *)
JwtSign(user_id) == Jwt("good", "fresh", user_id)

TokenMissing_Never(token) == FALSE

(* authHeader && authHeader.split(' ')[1] is falsy *)
TokenMissing(token) == token.form = "absent"

JwtVerify_IgnoresExpiry(token) == token.form = "malformed" \/ token.sig # "good"

JwtVerifyThrows(token) ==
  token.form = "malformed" \/ token.sig # "good" \/ token.exp # "fresh"

Tokens ==
  {NoToken, MalformedToken, Jwt("tampered", "fresh", "user1"), Jwt("good", "expired", "user1")}
    \cup {JwtSign(u) : u \in DOMAIN db.users \cup {GhostUser}}

(***************************************************************************)
(* Endpoints and the requests sent to them.                                *)
(***************************************************************************)
Endpoints ==
  {[op |-> "register", kind |-> "-"], [op |-> "patch_profile", kind |-> "-"],
   [op |-> "patch_settings", kind |-> "-"], [op |-> "comment", kind |-> "-"]}
    \cup [op : {"create", "patch", "delete"}, kind : Kinds]

(* the routes registered with authenticateToken *)
Protected(ep) == ep.op \in {"patch_profile", "patch_settings", "create", "patch", "delete"}

NoSuchId == "no-such-id"

PathIds(ep) ==
  CASE ep.op = "register" -> {"-"}
    [] ep.op \in {"patch_profile", "patch_settings", "create"} -> DOMAIN db.users
    [] ep.op = "comment" -> DOMAIN db.projects \cup {NoSuchId}
    [] OTHER -> DOMAIN db[ep.kind] \cup {NoSuchId}

BodyUserIds == {UNDEF, "user1", "user2"}

NoBody == [user_id |-> UNDEF]

KindBodies(kind) ==
  CASE kind = "projects" ->
         [user_id : BodyUserIds, title : {UNDEF, "X"}, description : {UNDEF, NULL, "d"},
          images : {UNDEF, "[img]"}, project_url : {UNDEF, "not a url", "https://example.com/x"}]
    [] kind = "skills" ->
         [user_id : BodyUserIds, skill_name : {UNDEF, "Go"},
          proficiency_level : {UNDEF, NULL, "#5"}]
    [] kind = "experience_timeline" ->
         [user_id : BodyUserIds, title : {UNDEF, "X"}, description : {UNDEF},
          start_date : {UNDEF, "2021-05-01"}, end_date : {UNDEF, NULL, "2022-06-30"}]
    [] kind = "testimonials" ->
         [user_id : BodyUserIds, client_name : {UNDEF, "Acme"},
          feedback : {UNDEF, NULL, "ok"}]
    [] kind = "blog_posts" ->
         [user_id : BodyUserIds, title : {UNDEF, "X"}, content : {UNDEF, NULL, "c"}]

Bodies(ep) ==
  CASE ep.op = "register" ->
         [email : {UNDEF, "not-an-email", "John.Doe@Example.com", "john.doe@example.com",
                   "new@example.com"},
          password_hash : {UNDEF, "secret"}, name : {UNDEF, "A"}]
    [] ep.op = "patch_profile" ->
         [user_id : BodyUserIds, profile_picture_url : {UNDEF},
          cover_image_url : {UNDEF}, bio : {UNDEF, NULL, "bio"},
          contact_email : {UNDEF, "not-an-email", "c@example.com"},
          phone_number : {UNDEF}, social_media_links : {UNDEF, "{k:v}"}]
    [] ep.op = "patch_settings" ->
         [user_id : BodyUserIds, color_scheme : {UNDEF, "{k:v}", "#5"},
          chosen_template : {UNDEF, "template2", "no-such-template"},
          font_selection : {UNDEF}]
    [] ep.op = "comment" ->
         [project_id : {UNDEF, "project1", "project2"}, user_name : {UNDEF, "Eve"},
          content : {UNDEF, "hi"}]
    [] ep.op = "delete" -> {NoBody}
    [] OTHER -> KindBodies(ep.kind)

(***************************************************************************)
(* A request in flight.  pc is the await the handler is suspended at; log  *)
(* lists the pipeline stages and statements the request has executed.      *)
(***************************************************************************)
Slot(n) == "r" \o ToString(n)
SlotIds == {Slot(n) : n \in 1..MaxClients}

EmptyDb == [users |-> <<>>]
NoRow == [user_id |-> UNDEF]

Idle ==
  [pc |-> "idle", op |-> "-", kind |-> "-", token |-> NoToken, id |-> "-", body |-> NoBody,
   user |-> NULL, status |-> 0, code |-> "-", result |-> NoRow, log |-> <<>>,
   data |-> NoRow, gen |-> "-", pre |-> EmptyDb, predisk |-> {}]

Stages(req) == {req.log[i] : i \in DOMAIN req.log}

Step(req, pc, events) == [req EXCEPT !.pc = pc, !.log = req.log \o events]

Respond_NoReturn(req, status, code, events) ==
  [req EXCEPT !.status = status, !.code = code, !.log = req.log \o events]

(* res.status(status).json(createErrorResponse(message, error, code)) *)
Respond(req, status, code, events) ==
  [req EXCEPT !.pc = "done", !.status = status, !.code = code, !.log = req.log \o events]

Init ==
  /\ db = SeedDb
  /\ reqs = [r \in SlotIds |-> Idle]
  /\ slots = {"r1"}
  /\ nreq = 0
  /\ nextId = 1
  /\ disk = {}

(* a request arrives; express.json() has parsed its body *)
Receive(r) ==
  /\ r \in slots
  /\ reqs[r].pc = "idle"
  /\ nreq < MaxRequests
  /\ \E ep \in Endpoints :
       \E token \in (IF Protected(ep) THEN Tokens ELSE {NoToken}) :
         \E id \in PathIds(ep) :
           \E body \in Bodies(ep) :
             reqs' = [reqs EXCEPT ![r] =
                        [Idle EXCEPT !.pc = IF Protected(ep) THEN "auth" ELSE "handler",
                                     !.op = ep.op, !.kind = ep.kind, !.token = token,
                                     !.id = id, !.body = body, !.pre = db]]
  /\ nreq' = nreq + 1
  /\ UNCHANGED <<db, disk, slots, nextId>>

(***************************************************************************)
(* AuthGuard: authenticateToken                                            *)
(***************************************************************************)
RejectUnknownSubject_403(req) ==
  Respond(req, 403, "AUTH_TOKEN_INVALID", <<"SELECT users">>)

(* result.rows.length === 0 *)
RejectUnknownSubject(req) ==
  Respond(req, 401, "AUTH_TOKEN_INVALID", <<"SELECT users">>)

AuthVerify(r) ==
  /\ reqs[r].pc = "auth"
  /\ LET req == reqs[r] IN
       reqs' = [reqs EXCEPT ![r] =
                  IF TokenMissing(req.token)
                  THEN Respond(req, 401, "AUTH_TOKEN_MISSING", <<>>)
                  ELSE IF JwtVerifyThrows(req.token)
                       THEN Respond(req, 403, "AUTH_TOKEN_INVALID", <<"jwt.verify">>)
                       ELSE Step(req, "auth_lookup", <<"jwt.verify">>)]
  /\ UNCHANGED <<db, disk, slots, nreq, nextId>>

AuthLookup(r) ==
  /\ reqs[r].pc = "auth_lookup"
  /\ LET req == reqs[r] IN
       reqs' = [reqs EXCEPT ![r] =
                  IF req.token.sub \notin DOMAIN db.users
                  THEN RejectUnknownSubject(req)
                  ELSE [Step(req, "handler", <<"SELECT users">>) EXCEPT
                          !.user = req.token.sub]]
  /\ UNCHANGED <<db, disk, slots, nreq, nextId>>

(* the response has been sent *)
Finish(r) ==
  /\ reqs[r].pc = "done"
  /\ reqs' = [reqs EXCEPT ![r] = Idle]
  /\ UNCHANGED <<db, disk, slots, nreq, nextId>>

(***************************************************************************)
(* PersistenceGateway: the statements of the resource handlers              *)
(***************************************************************************)
NotFoundCode(kind) ==
  CASE kind = "projects" -> "PROJECT_NOT_FOUND"
    [] kind = "skills" -> "SKILL_NOT_FOUND"
    [] kind = "experience_timeline" -> "EXPERIENCE_NOT_FOUND"
    [] kind = "testimonials" -> "TESTIMONIAL_NOT_FOUND"
    [] kind = "blog_posts" -> "POST_NOT_FOUND"

(* INSERT INTO <kind> (...) VALUES (...) with the handler's parameter list *)
InsertRow(kind, v) ==
  CASE kind = "projects" ->
         [user_id |-> v.user_id, title |-> v.title, description |-> PgParam(v.description),
          images |-> IF Truthy(v.images) THEN StringifyImages(v.images) ELSE NULL,
          project_url |-> PgParam(v.project_url)]
    [] kind = "skills" ->
         [user_id |-> v.user_id, skill_name |-> v.skill_name,
          proficiency_level |-> PgParam(v.proficiency_level)]
    [] kind = "experience_timeline" ->
         [user_id |-> v.user_id, title |-> v.title, description |-> PgParam(v.description),
          start_date |-> ToISOString(v.start_date),
          end_date |-> IF Truthy(v.end_date) THEN ToISOString(v.end_date) ELSE NULL]
    [] kind = "testimonials" ->
         [user_id |-> v.user_id, client_name |-> v.client_name,
          feedback |-> PgParam(v.feedback)]
    [] kind = "blog_posts" ->
         [user_id |-> v.user_id, title |-> v.title, content |-> PgParam(v.content),
          created_at |-> NowIso]

UpdateRow_SetsOwner(kind, old, v) == [old EXCEPT !.user_id = v.user_id]

UpdateRow_ReplacesRow(kind, old, v) == InsertRow(kind, v)

(* UPDATE <kind> SET ... WHERE <id> = $n with the handler's parameter list *)
UpdateRow(kind, old, v) ==
  CASE kind = "projects" ->
         [old EXCEPT !.title = v.title, !.description = PgParam(v.description),
                     !.images = IF Truthy(v.images) THEN StringifyImages(v.images) ELSE NULL,
                     !.project_url = PgParam(v.project_url)]
    [] kind = "skills" ->
         [old EXCEPT !.skill_name = v.skill_name,
                     !.proficiency_level = PgParam(v.proficiency_level)]
    [] kind = "experience_timeline" ->
         [old EXCEPT !.title = v.title, !.description = PgParam(v.description),
                     !.start_date = ToISOString(v.start_date),
                     !.end_date = IF Truthy(v.end_date) THEN ToISOString(v.end_date)
                                  ELSE NULL]
    [] kind = "testimonials" ->
         [old EXCEPT !.client_name = v.client_name, !.feedback = PgParam(v.feedback)]
    [] kind = "blog_posts" ->
         [old EXCEPT !.title = v.title, !.content = PgParam(v.content)]

(* What the driver hands back for a column of type JSON: node-postgres      *)
(* parses it into an object, and the server registers no other type parser  *)
(* ("text" would be the value of a column declared TEXT).                   *)
JsonColumnReads == {"object"}

(* project.images ? JSON.parse(project.images).images || [] : []            *)
(* JSON.parse of an object throws a SyntaxError.                            *)
ResponseImages(stored, read) ==
  IF ~Truthy(stored) THEN "[]"
  ELSE IF read = "object" THEN "SyntaxError"
  ELSE IF ParseImages(stored) = UNDEF THEN "[]" ELSE ParseImages(stored)

(* the entity a handler sends from a RETURNING row *)
Entity(kind, id, row, read) ==
  [id |-> id,
   row |-> IF kind = "projects"
           THEN [row EXCEPT !.images = ResponseImages(row.images, read)]
           ELSE row]

(* the handler threw while building the response *)
Throws(entity) == "images" \in DOMAIN entity.row /\ entity.row.images = "SyntaxError"

OwnerCheck_NoCompare(table, id, principal) ==
  IF id \notin DOMAIN table THEN "not_found" ELSE "owner"

OwnerCheck_CompareFirst(table, id, principal) ==
  IF id \in DOMAIN table /\ table[id].user_id = principal THEN "owner" ELSE "forbidden"

(* the ownerCheck query of a mutation on an existing row and its two tests *)
OwnerCheck(table, id, principal) ==
  IF id \notin DOMAIN table THEN "not_found"
  ELSE IF table[id].user_id # principal THEN "forbidden"
  ELSE "owner"

MutationGate_ValidateFirst(check, valid) ==
  IF ~valid THEN "invalid"
  ELSE IF check = "owner" THEN "go" ELSE check

(* the early returns of a PATCH handler, in the order the handler makes them *)
MutationGate(check, valid) ==
  IF check # "owner" THEN check
  ELSE IF ~valid THEN "invalid"
  ELSE "go"

(* req.user.user_id !== user_id *)
PathMismatch(principal, pathUserId) == principal # pathUserId

(***************************************************************************)
(* POST /api/users/:user_id/<kind>                                          *)
(***************************************************************************)
CreateStart(r) ==
  /\ reqs[r].pc = "handler"
  /\ reqs[r].op = "create"
  /\ LET req == reqs[r]
         input == Spread("user_id", req.id, req.body)
         schema == CreateSchema(req.kind)
     IN IF PathMismatch(req.user, req.id)
        THEN /\ reqs' = [reqs EXCEPT ![r] =
                           Respond(req, 403, "FORBIDDEN", <<"handler", "ownership">>)]
             /\ UNCHANGED nextId
        ELSE IF ~ParseOk(schema, input)
        THEN /\ reqs' = [reqs EXCEPT ![r] =
                           Respond(req, 500, "INTERNAL_SERVER_ERROR",
                                   <<"handler", "ownership", "parse">>)]
             /\ UNCHANGED nextId
        ELSE /\ reqs' = [reqs EXCEPT ![r] =
                           [Step(req, "await_insert", <<"handler", "ownership", "parse">>)
                              EXCEPT !.data = Parsed(schema, input), !.gen = Uuid(nextId)]]
             /\ nextId' = nextId + 1
  /\ UNCHANGED <<db, disk, slots, nreq>>

CreateInsert(r) ==
  /\ reqs[r].pc = "await_insert"
  /\ reqs[r].op = "create"
  /\ LET req == reqs[r]
         row == InsertRow(req.kind, req.data)
     IN IF row.user_id \notin DOMAIN db.users
        THEN (* foreign key <kind>.user_id REFERENCES users *)
             /\ reqs' = [reqs EXCEPT ![r] =
                           Respond(req, 500, "INTERNAL_SERVER_ERROR", <<"INSERT">>)]
             /\ UNCHANGED db
        ELSE /\ db' = [db EXCEPT ![req.kind] = With(db[req.kind], req.gen, row)]
             /\ \E read \in JsonColumnReads :
                  LET entity == Entity(req.kind, req.gen, row, read) IN
                    reqs' = [reqs EXCEPT ![r] =
                               IF Throws(entity)
                               THEN Respond(req, 500, "INTERNAL_SERVER_ERROR", <<"INSERT">>)
                               ELSE [Respond(req, 201, "-", <<"INSERT">>) EXCEPT
                                       !.result = entity]]
  /\ UNCHANGED <<disk, slots, nreq, nextId>>

(***************************************************************************)
(* PATCH /api/<kind>/:id                                                    *)
(***************************************************************************)
PatchOwnerCheck(r) ==
  /\ reqs[r].pc = "handler"
  /\ reqs[r].op = "patch"
  /\ LET req == reqs[r]
         schema == CreateSchema(req.kind)
         gate == MutationGate(OwnerCheck(db[req.kind], req.id, req.user),
                              ParseOk(schema, req.body))
         seen == <<"handler", "SELECT owner", "ownership">>
     IN reqs' = [reqs EXCEPT ![r] =
                   CASE gate = "not_found" ->
                          Respond(req, 404, NotFoundCode(req.kind), seen)
                     [] gate = "forbidden" -> Respond(req, 403, "FORBIDDEN", seen)
                     [] gate = "invalid" ->
                          Respond(req, 500, "INTERNAL_SERVER_ERROR", seen \o <<"parse">>)
                     [] OTHER ->
                          [Step(req, "await_update", seen \o <<"parse">>) EXCEPT
                             !.data = Parsed(schema, req.body)]]
  /\ UNCHANGED <<db, disk, slots, nreq, nextId>>

PatchUpdate(r) ==
  /\ reqs[r].pc = "await_update"
  /\ reqs[r].op = "patch"
  /\ LET req == reqs[r] IN
       IF req.id \notin DOMAIN db[req.kind]
       THEN (* no row matched: result.rows[0] is undefined *)
            /\ reqs' = [reqs EXCEPT ![r] =
                          IF req.kind = "projects"
                          THEN Respond(req, 500, "INTERNAL_SERVER_ERROR", <<"UPDATE">>)
                          ELSE Respond(req, 200, "-", <<"UPDATE">>)]
            /\ UNCHANGED db
       ELSE LET row == UpdateRow(req.kind, db[req.kind][req.id], req.data) IN
            /\ db' = [db EXCEPT ![req.kind][req.id] = row]
            /\ \E read \in JsonColumnReads :
                 LET entity == Entity(req.kind, req.id, row, read) IN
                   reqs' = [reqs EXCEPT ![r] =
                              IF Throws(entity)
                              THEN Respond(req, 500, "INTERNAL_SERVER_ERROR", <<"UPDATE">>)
                              ELSE [Respond(req, 200, "-", <<"UPDATE">>) EXCEPT
                                      !.result = entity]]
  /\ UNCHANGED <<disk, slots, nreq, nextId>>

(***************************************************************************)
(* DELETE /api/<kind>/:id                                                   *)
(***************************************************************************)
DeleteOwnerCheck(r) ==
  /\ reqs[r].pc = "handler"
  /\ reqs[r].op = "delete"
  /\ LET req == reqs[r]
         check == OwnerCheck(db[req.kind], req.id, req.user)
         seen == <<"handler", "SELECT owner", "ownership">>
     IN reqs' = [reqs EXCEPT ![r] =
                   CASE check = "not_found" ->
                          Respond(req, 404, NotFoundCode(req.kind), seen)
                     [] check = "forbidden" -> Respond(req, 403, "FORBIDDEN", seen)
                     [] OTHER ->
                          Step(req, IF req.kind = "projects" THEN "await_delete_comments"
                                    ELSE "await_delete", seen)]
  /\ UNCHANGED <<db, disk, slots, nreq, nextId>>

(* DELETE FROM comments WHERE project_id = $1 *)
DeleteComments(r) ==
  /\ reqs[r].pc = "await_delete_comments"
  /\ LET req == reqs[r]
         kept == {c \in DOMAIN db.comments : db.comments[c].project_id # req.id}
     IN /\ db' = [db EXCEPT !.comments = [c \in kept |-> db.comments[c]]]
        /\ reqs' = [reqs EXCEPT ![r] = Step(req, "await_delete", <<"DELETE comments">>)]
  /\ UNCHANGED <<disk, slots, nreq, nextId>>

DeleteRow_NoForeignKey(r) ==
  /\ reqs[r].pc = "await_delete"
  /\ db' = [db EXCEPT ![reqs[r].kind] = Without(db[reqs[r].kind], reqs[r].id)]
  /\ reqs' = [reqs EXCEPT ![r] = Respond(reqs[r], 204, "-", <<"DELETE">>)]
  /\ UNCHANGED <<disk, slots, nreq, nextId>>

(* DELETE FROM <kind> WHERE <id> = $1 *)
DeleteRow(r) ==
  /\ reqs[r].pc = "await_delete"
  /\ LET req == reqs[r] IN
       IF /\ req.kind = "projects"
          /\ \E c \in DOMAIN db.comments : db.comments[c].project_id = req.id
       THEN (* foreign key comments.project_id REFERENCES projects *)
            /\ reqs' = [reqs EXCEPT ![r] =
                          Respond(req, 500, "INTERNAL_SERVER_ERROR", <<"DELETE">>)]
            /\ UNCHANGED db
       ELSE /\ db' = [db EXCEPT ![req.kind] = Without(db[req.kind], req.id)]
            /\ reqs' = [reqs EXCEPT ![r] = Respond(req, 204, "-", <<"DELETE">>)]
  /\ UNCHANGED <<disk, slots, nreq, nextId>>

(***************************************************************************)
(* PATCH /api/users/:user_id                                                *)
(***************************************************************************)
ProfileColumns == DOMAIN updateUserProfileInputSchema \ {"user_id"}

(* the keys of validatedData that enter the SET list *)
UpdateFields(data) == {f \in DOMAIN data : f # "user_id" /\ data[f] # UNDEF}

ProfileStart(r) ==
  /\ reqs[r].pc = "handler"
  /\ reqs[r].op = "patch_profile"
  /\ LET req == reqs[r]
         input == Spread("user_id", req.id, req.body)
         schema == updateUserProfileInputSchema
     IN reqs' = [reqs EXCEPT ![r] =
                   IF PathMismatch(req.user, req.id)
                   THEN Respond(req, 403, "FORBIDDEN", <<"handler", "ownership">>)
                   ELSE IF ~ParseOk(schema, input)
                   THEN Respond(req, 500, "INTERNAL_SERVER_ERROR",
                                <<"handler", "ownership", "parse">>)
                   ELSE IF UpdateFields(Parsed(schema, input)) = {}
                   THEN Respond(req, 400, "NO_UPDATE_FIELDS",
                                <<"handler", "ownership", "parse">>)
                   ELSE [Step(req, "await_update_profile",
                              <<"handler", "ownership", "parse">>)
                           EXCEPT !.data = Parsed(schema, input)]]
  /\ UNCHANGED <<db, disk, slots, nreq, nextId>>

(* UPDATE user_profiles SET <updateFields> WHERE user_id = $n RETURNING * *)
ProfileUpdate(r) ==
  /\ reqs[r].pc = "await_update_profile"
  /\ LET req == reqs[r] IN
       IF req.id \notin DOMAIN db.user_profiles
       THEN /\ reqs' = [reqs EXCEPT ![r] =
                          Respond(req, 404, "PROFILE_NOT_FOUND", <<"UPDATE">>)]
            /\ UNCHANGED db
       ELSE LET old == db.user_profiles[req.id]
                row == [f \in DOMAIN old |->
                          IF f \in UpdateFields(req.data) THEN PgParam(req.data[f])
                          ELSE old[f]]
            IN /\ db' = [db EXCEPT !.user_profiles[req.id] = row]
               /\ reqs' = [reqs EXCEPT ![r] = Respond(req, 200, "-", <<"UPDATE">>)]
  /\ UNCHANGED <<disk, slots, nreq, nextId>>

(***************************************************************************)
(* PATCH /api/users/:user_id/settings                                       *)
(***************************************************************************)
SettingsStart(r) ==
  /\ reqs[r].pc = "handler"
  /\ reqs[r].op = "patch_settings"
  /\ LET req == reqs[r]
         input == Spread("user_id", req.id, req.body)
         schema == createUserSettingsInputSchema
     IN reqs' = [reqs EXCEPT ![r] =
                   IF PathMismatch(req.user, req.id)
                   THEN Respond(req, 403, "FORBIDDEN", <<"handler", "ownership">>)
                   ELSE IF ~ParseOk(schema, input)
                   THEN Respond(req, 500, "INTERNAL_SERVER_ERROR",
                                <<"handler", "ownership", "parse">>)
                   ELSE [Step(req, "await_upsert", <<"handler", "ownership", "parse">>)
                           EXCEPT !.data = Parsed(schema, input)]]
  /\ UNCHANGED <<db, disk, slots, nreq, nextId>>

(* INSERT INTO user_settings ... ON CONFLICT (user_id) DO UPDATE SET ...    *)
SettingsUpsert(r) ==
  /\ reqs[r].pc = "await_upsert"
  /\ LET req == reqs[r]
         v == req.data
         row == [color_scheme |-> IF Truthy(v.color_scheme)
                                  THEN JsonStringify(v.color_scheme) ELSE NULL,
                 chosen_template |-> PgParam(v.chosen_template),
                 font_selection |-> PgParam(v.font_selection)]
     IN IF \/ v.user_id \notin DOMAIN db.users
           \/ row.chosen_template \notin db.project_templates \cup {NULL}
        THEN (* foreign keys of user_settings *)
             /\ reqs' = [reqs EXCEPT ![r] =
                           Respond(req, 500, "INTERNAL_SERVER_ERROR", <<"INSERT">>)]
             /\ UNCHANGED db
        ELSE /\ db' = [db EXCEPT !.user_settings = With(db.user_settings, v.user_id, row)]
             /\ reqs' = [reqs EXCEPT ![r] = Respond(req, 200, "-", <<"INSERT">>)]
  /\ UNCHANGED <<disk, slots, nreq, nextId>>

(***************************************************************************)
(* POST /api/auth/register                                                  *)
(***************************************************************************)
RegisterStart(r) ==
  /\ reqs[r].pc = "handler"
  /\ reqs[r].op = "register"
  /\ LET req == reqs[r]
         schema == createUserInputSchema
     IN reqs' = [reqs EXCEPT ![r] =
                   IF ~ParseOk(schema, req.body)
                   THEN Respond(req, 500, "INTERNAL_SERVER_ERROR", <<"handler", "parse">>)
                   ELSE [Step(req, "await_check_email", <<"handler", "parse">>) EXCEPT
                           !.data = Parsed(schema, req.body)]]
  /\ UNCHANGED <<db, disk, slots, nreq, nextId>>

(* SELECT user_id FROM users WHERE email = $1 *)
RegisterCheckEmail(r) ==
  /\ reqs[r].pc = "await_check_email"
  /\ LET req == reqs[r] IN
       IF \E u \in DOMAIN db.users : db.users[u].email = req.data.email
       THEN /\ reqs' = [reqs EXCEPT ![r] =
                          Respond(req, 400, "USER_ALREADY_EXISTS", <<"SELECT users">>)]
            /\ UNCHANGED nextId
       ELSE /\ reqs' = [reqs EXCEPT ![r] =
                          [Step(req, "await_insert_user", <<"SELECT users">>) EXCEPT
                             !.gen = Uuid(nextId)]]
            /\ nextId' = nextId + 1
  /\ UNCHANGED <<db, disk, slots, nreq>>

(* INSERT INTO users ...; email is UNIQUE *)
RegisterInsertUser(r) ==
  /\ reqs[r].pc = "await_insert_user"
  /\ LET req == reqs[r]
         row == [email |-> LowerTrim(req.data.email),
                 password_hash |-> req.data.password_hash,
                 name |-> IF Truthy(req.data.name) THEN req.data.name ELSE NULL,
                 created_at |-> NowIso]
     IN IF \E u \in DOMAIN db.users : db.users[u].email = row.email
        THEN /\ reqs' = [reqs EXCEPT ![r] =
                           Respond(req, 500, "INTERNAL_SERVER_ERROR", <<"INSERT users">>)]
             /\ UNCHANGED db
        ELSE /\ db' = [db EXCEPT !.users = With(db.users, req.gen, row)]
             /\ reqs' = [reqs EXCEPT ![r] =
                           Step(req, "await_insert_profile", <<"INSERT users">>)]
  /\ UNCHANGED <<disk, slots, nreq, nextId>>

(* INSERT INTO user_profiles (user_id) VALUES ($1), then the token.  The    *)
(* statement runs outside any transaction; when the pool rejects it (the    *)
(* connection is lost, the statement times out) the catch block answers 500 *)
(* and the users row inserted before it stays.                              *)
RegisterInsertProfile(r) ==
  /\ reqs[r].pc = "await_insert_profile"
  /\ LET req == reqs[r] IN
       \/ /\ db' = [db EXCEPT !.user_profiles =
                      With(db.user_profiles, req.gen, [f \in ProfileColumns |-> NULL])]
          /\ reqs' = [reqs EXCEPT ![r] =
                        [Respond(req, 200, "-", <<"INSERT user_profiles">>) EXCEPT
                           !.result = [id |-> req.gen, row |-> db.users[req.gen],
                                       token |-> JwtSign(req.gen)]]]
       \/ /\ UNCHANGED db
          /\ reqs' = [reqs EXCEPT ![r] =
                        Respond(req, 500, "INTERNAL_SERVER_ERROR", <<>>)]
  /\ UNCHANGED <<disk, slots, nreq, nextId>>

(***************************************************************************)
(* POST /api/projects/:project_id/comments                                  *)
(***************************************************************************)
CommentCheckProject(r) ==
  /\ reqs[r].pc = "handler"
  /\ reqs[r].op = "comment"
  /\ LET req == reqs[r]
         input == Spread("project_id", req.id, req.body)
         schema == createCommentInputSchema
         seen == <<"handler", "SELECT projects">>
     IN IF req.id \notin DOMAIN db.projects
        THEN /\ reqs' = [reqs EXCEPT ![r] = Respond(req, 404, "PROJECT_NOT_FOUND", seen)]
             /\ UNCHANGED nextId
        ELSE IF ~ParseOk(schema, input)
        THEN /\ reqs' = [reqs EXCEPT ![r] =
                           Respond(req, 500, "INTERNAL_SERVER_ERROR", seen \o <<"parse">>)]
             /\ UNCHANGED nextId
        ELSE /\ reqs' = [reqs EXCEPT ![r] =
                           [Step(req, "await_insert_comment", seen \o <<"parse">>) EXCEPT
                              !.data = Parsed(schema, input), !.gen = Uuid(nextId)]]
             /\ nextId' = nextId + 1
  /\ UNCHANGED <<db, disk, slots, nreq>>

CommentInsert(r) ==
  /\ reqs[r].pc = "await_insert_comment"
  /\ LET req == reqs[r]
         row == [project_id |-> req.data.project_id,
                 user_name |-> PgParam(req.data.user_name),
                 content |-> req.data.content, created_at |-> NowIso]
     IN IF row.project_id \notin DOMAIN db.projects
        THEN (* foreign key comments.project_id REFERENCES projects *)
             /\ reqs' = [reqs EXCEPT ![r] =
                           Respond(req, 500, "INTERNAL_SERVER_ERROR", <<"INSERT">>)]
             /\ UNCHANGED db
        ELSE /\ db' = [db EXCEPT !.comments = With(db.comments, req.gen, row)]
             /\ reqs' = [reqs EXCEPT ![r] =
                           [Respond(req, 201, "-", <<"INSERT">>) EXCEPT
                              !.result = [id |-> req.gen, row |-> row]]]
  /\ UNCHANGED <<disk, slots, nreq, nextId>>

(***************************************************************************)
(* GET /api/projects/:project_id                                            *)
(***************************************************************************)
GetProject(r) ==
  /\ reqs[r].pc = "handler"
  /\ reqs[r].op = "get_project"
  /\ LET req == reqs[r]
         seen == <<"handler", "SELECT projects">>
     IN IF req.id \notin DOMAIN db.projects
        THEN reqs' = [reqs EXCEPT ![r] = Respond(req, 404, "PROJECT_NOT_FOUND", seen)]
        ELSE \E read \in JsonColumnReads :
               LET entity == Entity("projects", req.id, db.projects[req.id], read) IN
                 reqs' = [reqs EXCEPT ![r] =
                            IF Throws(entity)
                            THEN Respond(req, 500, "INTERNAL_SERVER_ERROR", seen)
                            ELSE [Respond(req, 200, "-", seen) EXCEPT !.result = entity]]
  /\ UNCHANGED <<db, disk, slots, nreq, nextId>>

(***************************************************************************)
(* GET /api/analytics/:user_id                                              *)
(***************************************************************************)
(* SELECT ... FROM analytics WHERE user_id = $1 *)
AnalyticsRows(table, user_id) == {a \in DOMAIN table : table[a].user_id = user_id}

(* column ? JSON.parse(column) : fallback *)
ResponseJson(stored, read, fallback) ==
  IF ~Truthy(stored) THEN fallback
  ELSE IF read = "object" THEN "SyntaxError"
  ELSE JsonParse(stored)

(* the handler's response for result.rows[0]; the SELECT has no ORDER BY, so *)
(* rows[0] is any of the user's rows                                         *)
AnalyticsResponses(req, table, events) ==
  {LET row == table[a]
       popular == ResponseJson(row.popular_projects, read, InitialPopularProjects)
       interaction == ResponseJson(row.interaction_data, read, InitialInteractionData)
   IN IF "SyntaxError" \in {popular, interaction}
      THEN Respond(req, 500, "INTERNAL_SERVER_ERROR", events)
      ELSE [Respond(req, 200, "-", events) EXCEPT
              !.result = [id |-> a,
                          row |-> [row EXCEPT !.popular_projects = popular,
                                              !.interaction_data = interaction]]] :
     a \in AnalyticsRows(table, req.id), read \in JsonColumnReads}

AnalyticsSelect(r) ==
  /\ reqs[r].pc = "handler"
  /\ reqs[r].op = "get_analytics"
  /\ LET req == reqs[r]
         seen == <<"handler", "ownership", "SELECT analytics">>
     IN IF PathMismatch(req.user, req.id)
        THEN /\ reqs' = [reqs EXCEPT ![r] =
                           Respond(req, 403, "FORBIDDEN", <<"handler", "ownership">>)]
             /\ UNCHANGED nextId
        ELSE IF AnalyticsRows(db.analytics, req.id) = {}
        THEN /\ reqs' = [reqs EXCEPT ![r] =
                           [Step(req, "await_insert_analytics", seen) EXCEPT
                              !.gen = Uuid(nextId)]]
             /\ nextId' = nextId + 1
        ELSE /\ \E resp \in AnalyticsResponses(req, db.analytics, seen) :
                  reqs' = [reqs EXCEPT ![r] = resp]
             /\ UNCHANGED nextId
  /\ UNCHANGED <<db, disk, slots, nreq>>

(* INSERT INTO analytics (...) VALUES ($1, $2, $3, $4, $5); analytics_id is  *)
(* the only key of the table                                                 *)
AnalyticsInsert(r) ==
  /\ reqs[r].pc = "await_insert_analytics"
  /\ LET req == reqs[r]
         row == [user_id |-> req.id, visit_count |-> 0,
                 popular_projects |-> StringifyInitial(InitialPopularProjects),
                 interaction_data |-> StringifyInitial(InitialInteractionData)]
     IN /\ db' = [db EXCEPT !.analytics = With(db.analytics, req.gen, row)]
        /\ reqs' = [reqs EXCEPT ![r] = Step(req, "await_reselect_analytics", <<"INSERT">>)]
  /\ UNCHANGED <<disk, slots, nreq, nextId>>

AnalyticsReselect(r) ==
  /\ reqs[r].pc = "await_reselect_analytics"
  /\ \E resp \in AnalyticsResponses(reqs[r], db.analytics, <<"SELECT analytics">>) :
       reqs' = [reqs EXCEPT ![r] = resp]
  /\ UNCHANGED <<db, disk, slots, nreq, nextId>>

(***************************************************************************)
(* POST /api/contact/:user_id                                               *)
(***************************************************************************)
(* The jsonb values of interaction_data: a text without a contacts key, or  *)
(* ContactsJson(base, n), the object of `base` with contacts set to n.      *)
ContactsBases ==
  {"{\"clicks\": 50, \"likes\": 30, \"contacts\": ",
   "{\"clicks\": 70, \"shares\": 20, \"contacts\": ",
   "{\"views\": 0, \"comments\": 0, \"contacts\": ",
   "{\"contacts\": "}

ContactsRange == 0..(MaxClients + 1)

ContactsJson(base, n) == base \o ToString(n) \o "}"

(* the object of text with its contacts key removed, up to `"contacts": n}` *)
ContactsBase(text) ==
  CASE text = "{\"clicks\": 50, \"likes\": 30}" ->
         "{\"clicks\": 50, \"likes\": 30, \"contacts\": "
    [] text = "{\"clicks\": 70, \"shares\": 20}" ->
         "{\"clicks\": 70, \"shares\": 20, \"contacts\": "
    [] text = "{\"views\":0,\"comments\":0,\"contacts\":0}" ->
         "{\"views\": 0, \"comments\": 0, \"contacts\": "
    [] \E b \in ContactsBases : \E n \in ContactsRange : text = ContactsJson(b, n) ->
         CHOOSE b \in ContactsBases : \E n \in ContactsRange : text = ContactsJson(b, n)
    [] OTHER -> "{\"contacts\": "

(* COALESCE((interaction_data::jsonb->>'contacts')::int, 0) *)
JsonbContacts(text) ==
  IF \E n \in ContactsRange : text = ContactsJson(ContactsBase(text), n)
  THEN CHOOSE n \in ContactsRange : text = ContactsJson(ContactsBase(text), n)
  ELSE 0

(* the text of the first literal of the SET expression *)
ContactsLiteral == "{\"contacts\": "

(* the jsonb input function: a text that is not JSON raises                 *)
(* "invalid input syntax for type json"                                     *)
JsonbIn(text) ==
  \/ JsonParse(text) # "SyntaxError"
  \/ text = "{}"
  \/ \E n \in ContactsRange : text = ContactsJson(ContactsBase(text), n)

(* UPDATE analytics SET interaction_data = COALESCE(interaction_data::jsonb, *)
(* '{}'::jsonb) || '{"contacts": ' || (...contacts + 1) || '}'               *)
(* WHERE user_id = $1.  The operator after a jsonb operand is jsonb || jsonb, *)
(* so its untyped literal operand is read as jsonb when the statement is     *)
(* analysed, whatever rows the WHERE clause selects.                         *)
IncrementContacts(table, user_id) ==
  IF ~JsonbIn(ContactsLiteral)
  THEN [error |-> TRUE, table |-> table]
  ELSE [error |-> FALSE,
        table |-> [a \in DOMAIN table |->
                     IF table[a].user_id = user_id
                     THEN [table[a] EXCEPT !.interaction_data =
                             ContactsJson(ContactsBase(@), JsonbContacts(@) + 1)]
                     ELSE table[a]]]

ContactCheckUser(r) ==
  /\ reqs[r].pc = "handler"
  /\ reqs[r].op = "contact"
  /\ LET req == reqs[r]
         input == Spread("user_id", req.id, req.body)
         schema == createVisitorMessageInputSchema
         seen == <<"handler", "SELECT users">>
     IN IF req.id \notin DOMAIN db.users
        THEN /\ reqs' = [reqs EXCEPT ![r] = Respond(req, 404, "USER_NOT_FOUND", seen)]
             /\ UNCHANGED nextId
        ELSE IF ~ParseOk(schema, input)
        THEN /\ reqs' = [reqs EXCEPT ![r] =
                           Respond(req, 500, "INTERNAL_SERVER_ERROR", seen \o <<"parse">>)]
             /\ UNCHANGED nextId
        ELSE /\ reqs' = [reqs EXCEPT ![r] =
                           [Step(req, "await_insert_message", seen \o <<"parse">>) EXCEPT
                              !.data = Parsed(schema, input), !.gen = Uuid(nextId)]]
             /\ nextId' = nextId + 1
  /\ UNCHANGED <<db, disk, slots, nreq>>

(* INSERT INTO visitor_messages (...) VALUES (...) RETURNING ... *)
ContactInsertMessage(r) ==
  /\ reqs[r].pc = "await_insert_message"
  /\ LET req == reqs[r]
         row == [user_id |-> req.data.user_id,
                 visitor_email |-> PgParam(req.data.visitor_email),
                 visitor_message |-> req.data.visitor_message, sent_at |-> NowIso]
     IN IF row.user_id \notin DOMAIN db.users
        THEN (* foreign key visitor_messages.user_id REFERENCES users *)
             /\ reqs' = [reqs EXCEPT ![r] =
                           Respond(req, 500, "INTERNAL_SERVER_ERROR", <<"INSERT">>)]
             /\ UNCHANGED db
        ELSE /\ db' = [db EXCEPT !.visitor_messages =
                         With(db.visitor_messages, req.gen, row)]
             /\ reqs' = [reqs EXCEPT ![r] =
                           Step(req, "await_update_analytics", <<"INSERT">>)]
  /\ UNCHANGED <<disk, slots, nreq, nextId>>

ContactUpdateAnalytics(r) ==
  /\ reqs[r].pc = "await_update_analytics"
  /\ LET req == reqs[r]
         update == IncrementContacts(db.analytics, req.id)
     IN IF update.error
        THEN /\ reqs' = [reqs EXCEPT ![r] =
                           Respond(req, 500, "INTERNAL_SERVER_ERROR", <<"UPDATE">>)]
             /\ UNCHANGED db
        ELSE /\ db' = [db EXCEPT !.analytics = update.table]
             /\ reqs' = [reqs EXCEPT ![r] = Respond(req, 200, "-", <<"UPDATE">>)]
  /\ UNCHANGED <<disk, slots, nreq, nextId>>

(***************************************************************************)
(* POST /api/upload/:type: authenticateToken, upload.single('file'), handler *)
(***************************************************************************)
(* directories, as lists of path segments below __dirname *)
storageDir == <<"storage">>
uploadsDir == storageDir \o <<"uploads">>
profilesDir == uploadsDir \o <<"profiles">>
projectsDir == uploadsDir \o <<"projects">>

(* storage.destination *)
Destination(type) ==
  IF type = "profile" THEN profilesDir
  ELSE IF type = "project" THEN projectsDir
  ELSE uploadsDir

(* path.extname(file.originalname) *)
ExtName(originalname) ==
  CASE originalname = "photo.png" -> ".png"
    [] originalname = "PHOTO.JPG" -> ".JPG"
    [] originalname = "notes.txt" -> ".txt"
    [] originalname = "notes.pngx" -> ".pngx"
    [] OTHER -> ""

ToLowerCase(s) == IF s = ".JPG" THEN ".jpg" ELSE s

(* /jpeg|jpg|png|gif|webp/.test(s): s contains one of the words *)
AllowedTypesTest(s) == s \in {".png", ".jpg", ".pngx", "image/png", "image/jpeg"}

(* fileFilter *)
FileFilter(file) ==
  AllowedTypesTest(ToLowerCase(ExtName(file.originalname))) /\ AllowedTypesTest(file.mimetype)

(* limits.fileSize *)
FileSizeLimit == 5 * 1024 * 1024

(* storage.filename: `${Date.now()}-${random}${ext}` *)
StoredName(n, file) == "upload-" \o ToString(n) \o ExtName(file.originalname)

(* `/uploads/${req.params.type}/${req.file.filename}` *)
FileUrl(type, filename) == <<"uploads", type, filename>>

(* app.use('/uploads', express.static(uploadsDir)): the file a URL addresses *)
StaticResolve(url) ==
  IF Len(url) > 0 /\ Head(url) = "uploads" THEN uploadsDir \o Tail(url) ELSE <<>>

NoFile == [originalname |-> UNDEF, mimetype |-> UNDEF, size |-> 0]

(* upload.single('file'): multer runs fileFilter, then streams the file to   *)
(* destination/filename; an error (filter, size limit) goes to next(err),    *)
(* which no error middleware handles: express answers 500 with an HTML page. *)
UploadSingle(r) ==
  /\ reqs[r].pc = "handler"
  /\ reqs[r].op = "upload"
  /\ LET req == reqs[r]
         file == req.body
         name == StoredName(nextId, file)
     IN IF file = NoFile
        THEN /\ reqs' = [reqs EXCEPT ![r] = Step(req, "upload_handler", <<"multer">>)]
             /\ UNCHANGED <<disk, nextId>>
        ELSE IF ~FileFilter(file)
        THEN /\ reqs' = [reqs EXCEPT ![r] = Respond(req, 500, "-", <<"multer">>)]
             /\ UNCHANGED <<disk, nextId>>
        ELSE IF file.size > FileSizeLimit
        THEN (* LIMIT_FILE_SIZE: multer removes the partial file *)
             /\ reqs' = [reqs EXCEPT ![r] = Respond(req, 500, "-", <<"multer">>)]
             /\ nextId' = nextId + 1
             /\ UNCHANGED disk
        ELSE /\ disk' = disk \cup {Destination(req.id) \o <<name>>}
             /\ reqs' = [reqs EXCEPT ![r] =
                           [Step(req, "upload_handler", <<"multer", "write">>) EXCEPT
                              !.gen = name,
                              !.data = [destination |-> Destination(req.id),
                                        filename |-> name]]]
             /\ nextId' = nextId + 1
  /\ UNCHANGED <<db, slots, nreq>>

UploadRespond(r) ==
  /\ reqs[r].pc = "upload_handler"
  /\ LET req == reqs[r] IN
       reqs' = [reqs EXCEPT ![r] =
                  IF req.body = NoFile
                  THEN Respond(req, 400, "NO_FILE_UPLOADED", <<"handler">>)
                  ELSE [Respond(req, 200, "-", <<"handler">>) EXCEPT
                          !.result = [url |-> FileUrl(req.id, req.data.filename),
                                      filename |-> req.data.filename,
                                      originalName |-> req.body.originalname,
                                      size |-> req.body.size]]]
  /\ UNCHANGED <<db, disk, slots, nreq, nextId>>

(***************************************************************************)
(* POST /api/auth/login                                                     *)
(***************************************************************************)
(* email.toLowerCase() of a value that is not a string: a TypeError *)
HasToLowerCase(v) == IsString(v)

LoginStart(r) ==
  /\ reqs[r].pc = "handler"
  /\ reqs[r].op = "login"
  /\ LET req == reqs[r] IN
       reqs' = [reqs EXCEPT ![r] =
                  IF ~Truthy(req.body.email) \/ ~Truthy(req.body.password)
                  THEN Respond(req, 400, "MISSING_REQUIRED_FIELDS", <<"handler">>)
                  ELSE IF ~HasToLowerCase(req.body.email)
                  THEN Respond(req, 500, "INTERNAL_SERVER_ERROR", <<"handler">>)
                  ELSE Step(req, "await_login_lookup", <<"handler">>)]
  /\ UNCHANGED <<db, disk, slots, nreq, nextId>>

(* password !== user.password_hash *)
PasswordMismatch(password, user) == password # user.password_hash

(* SELECT * FROM users WHERE email = $1; email is UNIQUE, so rows[0] is the  *)
(* only row                                                                  *)
LoginLookup(r) ==
  /\ reqs[r].pc = "await_login_lookup"
  /\ LET req == reqs[r]
         rows == {u \in DOMAIN db.users : db.users[u].email = LowerTrim(req.body.email)}
         seen == <<"SELECT users">>
     IN IF rows = {}
        THEN reqs' = [reqs EXCEPT ![r] = Respond(req, 400, "INVALID_CREDENTIALS", seen)]
        ELSE \E u \in rows :
               reqs' = [reqs EXCEPT ![r] =
                          IF PasswordMismatch(req.body.password, db.users[u])
                          THEN Respond(req, 400, "INVALID_CREDENTIALS", seen)
                          ELSE [Respond(req, 200, "-", seen) EXCEPT
                                  !.result = [id |-> u, row |-> db.users[u],
                                              token |-> JwtSign(u)]]]
  /\ UNCHANGED <<db, disk, slots, nreq, nextId>>

(***************************************************************************)
(* POST /api/auth/password-reset                                            *)
(***************************************************************************)
ResetMessage_Reveals(found) ==
  IF found THEN "If an account with that email exists, a password reset link has been sent."
  ELSE "No account with that email exists."

(* the message of the response, for an email that has a users row and for   *)
(* one that has none                                                        *)
ResetMessage(found) ==
  "If an account with that email exists, a password reset link has been sent."

ResetStart(r) ==
  /\ reqs[r].pc = "handler"
  /\ reqs[r].op = "password_reset"
  /\ LET req == reqs[r] IN
       reqs' = [reqs EXCEPT ![r] =
                  IF ~Truthy(req.body.email)
                  THEN Respond(req, 400, "MISSING_REQUIRED_FIELDS", <<"handler">>)
                  ELSE IF ~HasToLowerCase(req.body.email)
                  THEN Respond(req, 500, "INTERNAL_SERVER_ERROR", <<"handler">>)
                  ELSE Step(req, "await_reset_lookup", <<"handler">>)]
  /\ UNCHANGED <<db, disk, slots, nreq, nextId>>

(* SELECT user_id FROM users WHERE email = $1 *)
ResetLookup(r) ==
  /\ reqs[r].pc = "await_reset_lookup"
  /\ LET req == reqs[r]
         found == \E u \in DOMAIN db.users : db.users[u].email = LowerTrim(req.body.email)
     IN reqs' = [reqs EXCEPT ![r] =
                   [Respond(req, 200, "-", <<"SELECT users">>) EXCEPT
                      !.result = [message |-> ResetMessage(found)]]]
  /\ UNCHANGED <<db, disk, slots, nreq, nextId>>

Next ==
  \E r \in SlotIds :
    \/ Receive(r)
    \/ AuthVerify(r)
    \/ AuthLookup(r)
    \/ CreateStart(r)
    \/ CreateInsert(r)
    \/ PatchOwnerCheck(r)
    \/ PatchUpdate(r)
    \/ DeleteOwnerCheck(r)
    \/ DeleteComments(r)
    \/ DeleteRow(r)
    \/ ProfileStart(r)
    \/ ProfileUpdate(r)
    \/ SettingsStart(r)
    \/ SettingsUpsert(r)
    \/ RegisterStart(r)
    \/ RegisterCheckEmail(r)
    \/ RegisterInsertUser(r)
    \/ RegisterInsertProfile(r)
    \/ CommentCheckProject(r)
    \/ CommentInsert(r)
    \/ Finish(r)

Spec == Init /\ [][Next]_vars

(***************************************************************************)
(* Workloads.  Spec sends requests one at a time to the resource, profile,  *)
(* settings, registration and comment routes.  The specifications below     *)
(* send a request and a follow-up to it (SpecSeq), requests that are in     *)
(* flight together (SpecRace) and uploads (SpecUpload); they start from the *)
(* store as one registration leaves it, where a user has no Analytics row.  *)
(***************************************************************************)
NewUser == Uuid(1)

RegisteredDb ==
  [SeedDb EXCEPT
     !.users = With(@, NewUser, [email |-> "c@example.com", password_hash |-> "secret",
                                 name |-> NULL, created_at |-> NowIso]),
     !.user_profiles = With(@, NewUser, [f \in ProfileColumns |-> NULL])]

(* the routes registered with authenticateToken *)
ProtectedOps == {"patch_profile", "patch_settings", "create", "patch", "delete",
                 "get_analytics", "upload"}

NewRequest(op, kind, token, id, body) ==
  [Idle EXCEPT !.pc = IF op \in ProtectedOps THEN "auth" ELSE "handler",
               !.op = op, !.kind = kind, !.token = token, !.id = id, !.body = body,
               !.pre = db, !.predisk = disk]

(* A client that sends a mutation or a read, waits for the answer and then  *)
(* sends the follow-up: the same request again, or after a creation the GET *)
(* of the generated id.                                                     *)
SeqEndpoints ==
  {[op |-> "patch_profile", kind |-> "-"], [op |-> "patch_settings", kind |-> "-"],
   [op |-> "get_analytics", kind |-> "-"], [op |-> "create", kind |-> "projects"]}
    \cup [op : {"patch"}, kind : Kinds]

SeqPathIds(ep) == IF ep.op = "get_analytics" THEN DOMAIN db.users ELSE PathIds(ep)
SeqBodies(ep) == IF ep.op = "get_analytics" THEN {NoBody} ELSE Bodies(ep)

InitSeq ==
  /\ db = RegisteredDb
  /\ disk = {}
  /\ reqs = [r \in SlotIds |-> Idle]
  /\ slots = {Slot(1), Slot(2)}
  /\ nreq = 0
  /\ nextId = 2

SendFirst(r) ==
  /\ r = Slot(1)
  /\ reqs[r].pc = "idle"
  /\ nreq = 0
  /\ \E ep \in SeqEndpoints :
       \E u \in DOMAIN db.users :
         \E id \in SeqPathIds(ep) :
           \E body \in SeqBodies(ep) :
             reqs' = [reqs EXCEPT ![r] = NewRequest(ep.op, ep.kind, JwtSign(u), id, body)]
  /\ nreq' = nreq + 1
  /\ UNCHANGED <<db, disk, slots, nextId>>

FollowUp(r) ==
  /\ r = Slot(2)
  /\ reqs[r].pc = "idle"
  /\ reqs[Slot(1)].pc = "done"
  /\ nreq < 1 + MaxFollowUps
  /\ LET first == reqs[Slot(1)] IN
       reqs' = [reqs EXCEPT ![r] =
                  IF first.op = "create"
                  THEN NewRequest("get_project", "-", NoToken, first.gen, NoBody)
                  ELSE NewRequest(first.op, first.kind, first.token, first.id, first.body)]
  /\ nreq' = nreq + 1
  /\ UNCHANGED <<db, disk, slots, nextId>>

NextSeq ==
  \E r \in SlotIds :
    \/ SendFirst(r)
    \/ FollowUp(r)
    \/ AuthVerify(r)
    \/ AuthLookup(r)
    \/ CreateStart(r)
    \/ CreateInsert(r)
    \/ GetProject(r)
    \/ PatchOwnerCheck(r)
    \/ PatchUpdate(r)
    \/ ProfileStart(r)
    \/ ProfileUpdate(r)
    \/ SettingsStart(r)
    \/ SettingsUpsert(r)
    \/ AnalyticsSelect(r)
    \/ AnalyticsInsert(r)
    \/ AnalyticsReselect(r)
    \/ (r = Slot(2) /\ Finish(r))

SpecSeq == InitSeq /\ [][NextSeq]_vars

(* Clients whose requests are in flight together: the deletion of a project *)
(* with comments on it, registrations of one email, first reads of the      *)
(* analytics of a user with contact messages to that user, and updates of a *)
(* resource with its deletion.                                              *)
RaceGroups == {"projects", "register", "analytics", "resources"}

RaceRequests(group) ==
  CASE group = "projects" ->
         {[op |-> "delete", kind |-> "projects", token |-> JwtSign("user1"),
           id |-> "project1", body |-> NoBody],
          [op |-> "delete", kind |-> "projects", token |-> JwtSign("user2"),
           id |-> "project2", body |-> NoBody]}
           \cup {[op |-> "comment", kind |-> "-", token |-> NoToken, id |-> "project1",
                  body |-> [project_id |-> p, user_name |-> UNDEF, content |-> "hi"]] :
                   p \in {UNDEF, "project2"}}
    [] group = "register" ->
         {[op |-> "register", kind |-> "-", token |-> NoToken, id |-> "-",
           body |-> [email |-> e, password_hash |-> "secret", name |-> UNDEF]] :
            e \in {"new@example.com", "New@Example.com"}}
    [] group = "analytics" ->
         {[op |-> "get_analytics", kind |-> "-", token |-> JwtSign(u), id |-> u,
           body |-> NoBody] : u \in {"user1", NewUser}}
           \cup {[op |-> "contact", kind |-> "-", token |-> NoToken, id |-> u,
                  body |-> [user_id |-> b, visitor_email |-> UNDEF,
                            visitor_message |-> "hello"]] :
                   u \in {"user1", NewUser}, b \in {UNDEF, "user2"}}
    [] group = "resources" ->
         {[op |-> op, kind |-> "skills", token |-> JwtSign("user1"), id |-> "skill1",
           body |-> IF op = "delete" THEN NoBody
                    ELSE [user_id |-> "user1", skill_name |-> "Go",
                          proficiency_level |-> UNDEF]] : op \in {"patch", "delete"}}
           \cup {[op |-> "patch", kind |-> "projects", token |-> JwtSign("user2"),
                  id |-> "project2",
                  body |-> [user_id |-> "user2", title |-> "X", description |-> UNDEF,
                            images |-> UNDEF, project_url |-> UNDEF]],
                 [op |-> "delete", kind |-> "projects", token |-> JwtSign("user2"),
                  id |-> "project2", body |-> NoBody]}

RaceOps(group) == {q.op : q \in RaceRequests(group)}

InitRace ==
  /\ db = RegisteredDb
  /\ disk = {}
  /\ reqs = [r \in SlotIds |-> Idle]
  /\ slots = SlotIds
  /\ nreq = 0
  /\ nextId = 2

ReceiveRace(r) ==
  /\ r \in slots
  /\ reqs[r].pc = "idle"
  /\ \E group \in RaceGroups :
       /\ \A s \in slots : reqs[s].pc # "idle" => reqs[s].op \in RaceOps(group)
       /\ \E q \in RaceRequests(group) :
            reqs' = [reqs EXCEPT ![r] = NewRequest(q.op, q.kind, q.token, q.id, q.body)]
  /\ nreq' = nreq + 1
  /\ UNCHANGED <<db, disk, slots, nextId>>

NextRace ==
  \E r \in SlotIds :
    \/ ReceiveRace(r)
    \/ AuthVerify(r)
    \/ AuthLookup(r)
    \/ PatchOwnerCheck(r)
    \/ PatchUpdate(r)
    \/ DeleteOwnerCheck(r)
    \/ DeleteComments(r)
    \/ DeleteRow(r)
    \/ CommentCheckProject(r)
    \/ CommentInsert(r)
    \/ RegisterStart(r)
    \/ RegisterCheckEmail(r)
    \/ RegisterInsertUser(r)
    \/ RegisterInsertProfile(r)
    \/ AnalyticsSelect(r)
    \/ AnalyticsInsert(r)
    \/ AnalyticsReselect(r)
    \/ ContactCheckUser(r)
    \/ ContactInsertMessage(r)
    \/ ContactUpdateAnalytics(r)

SpecRace == InitRace /\ [][NextRace]_vars

(* Uploads, one at a time. *)
UploadTypes == {"profile", "project", "general", "banner"}

UploadFiles ==
  {NoFile} \cup [originalname : {"photo.png", "PHOTO.JPG", "notes.txt", "notes.pngx"},
                 mimetype : {"image/png", "text/plain"},
                 size : {1024, FileSizeLimit + 1}]

InitUpload ==
  /\ db = SeedDb
  /\ disk = {}
  /\ reqs = [r \in SlotIds |-> Idle]
  /\ slots = {Slot(1)}
  /\ nreq = 0
  /\ nextId = 1

ReceiveUpload(r) ==
  /\ r \in slots
  /\ reqs[r].pc = "idle"
  /\ nreq < MaxRequests
  /\ \E token \in Tokens :
       \E type \in UploadTypes :
         \E file \in UploadFiles :
           reqs' = [reqs EXCEPT ![r] = NewRequest("upload", "-", token, type, file)]
  /\ nreq' = nreq + 1
  /\ UNCHANGED <<db, disk, slots, nextId>>

NextUpload ==
  \E r \in SlotIds :
    \/ ReceiveUpload(r)
    \/ AuthVerify(r)
    \/ AuthLookup(r)
    \/ UploadSingle(r)
    \/ UploadRespond(r)
    \/ Finish(r)

SpecUpload == InitUpload /\ [][NextUpload]_vars

(* A client of the account routes: it registers, logs in or asks for a      *)
(* password reset, waits for the answer and then logs in with what it       *)
(* registered, or presents the token it was given on a protected route.     *)
AuthEndpoints == {"register", "login", "password_reset"}

AuthBodies(op) ==
  CASE op = "register" ->
         [email : {"not-an-email", "John.Doe@Example.com", "john.doe@example.com",
                   "new@example.com", "New@Example.com"},
          password_hash : {"secret", ""}, name : {UNDEF, "A"}]
    [] op = "login" ->
         [email : {UNDEF, "#5", "john.doe@example.com", "John.Doe@Example.com",
                   "new@example.com"},
          password : {UNDEF, "", "password123", "secret"}]
    [] op = "password_reset" ->
         [email : {UNDEF, "", "#5", "john.doe@example.com", "John.Doe@Example.com",
                   "new@example.com"}]

(* a PATCH of a profile that carries the token of an earlier response *)
WithToken(token, id) ==
  NewRequest("patch_profile", "-", token, id,
             [user_id |-> UNDEF, profile_picture_url |-> UNDEF, cover_image_url |-> UNDEF,
              bio |-> "bio", contact_email |-> UNDEF, phone_number |-> UNDEF,
              social_media_links |-> UNDEF])

InitAuth ==
  /\ db = SeedDb
  /\ disk = {}
  /\ reqs = [r \in SlotIds |-> Idle]
  /\ slots = {Slot(1), Slot(2)}
  /\ nreq = 0
  /\ nextId = 1

SendAuth(r) ==
  /\ r = Slot(1)
  /\ reqs[r].pc = "idle"
  /\ nreq = 0
  /\ \E op \in AuthEndpoints :
       \E body \in AuthBodies(op) :
         reqs' = [reqs EXCEPT ![r] = NewRequest(op, "-", NoToken, "-", body)]
  /\ nreq' = nreq + 1
  /\ UNCHANGED <<db, disk, slots, nextId>>

AuthFollowUp(r) ==
  /\ r = Slot(2)
  /\ reqs[r].pc = "idle"
  /\ reqs[Slot(1)].pc = "done"
  /\ nreq < 1 + MaxFollowUps
  /\ LET first == reqs[Slot(1)] IN
       \/ /\ first.op = "register"
          /\ reqs' = [reqs EXCEPT ![r] =
                        NewRequest("login", "-", NoToken, "-",
                                   [email |-> first.body.email,
                                    password |-> first.body.password_hash])]
       \/ /\ first.op \in {"register", "login"}
          /\ first.status = 200
          /\ \E id \in DOMAIN db.users :
               reqs' = [reqs EXCEPT ![r] = WithToken(first.result.token, id)]
  /\ nreq' = nreq + 1
  /\ UNCHANGED <<db, disk, slots, nextId>>

NextAuth ==
  \E r \in SlotIds :
    \/ SendAuth(r)
    \/ AuthFollowUp(r)
    \/ RegisterStart(r)
    \/ RegisterCheckEmail(r)
    \/ RegisterInsertUser(r)
    \/ RegisterInsertProfile(r)
    \/ LoginStart(r)
    \/ LoginLookup(r)
    \/ ResetStart(r)
    \/ ResetLookup(r)
    \/ AuthVerify(r)
    \/ AuthLookup(r)
    \/ ProfileStart(r)
    \/ ProfileUpdate(r)
    \/ (r = Slot(2) /\ Finish(r))

SpecAuth == InitAuth /\ [][NextAuth]_vars

(***************************************************************************)
(* Properties.  They are stated over the request as it was sent (token,     *)
(* path, body) and the store as it was when the request arrived (pre).      *)
(***************************************************************************)
Active(req) == req.pc # "idle"
Done(req) == req.pc = "done"
IsProtected(req) == req.op \in {"patch_profile", "patch_settings", "create", "patch", "delete"}

(* the credential is a well-formed, correctly signed, unexpired token *)
GoodToken(req) ==
  req.token.form = "jwt" /\ req.token.sig = "good" /\ req.token.exp = "fresh"

(* ... and its subject has a users row: the request is authenticated as token.sub *)
AuthenticatedAs(req, p) == GoodToken(req) /\ req.token.sub = p /\ p \in DOMAIN req.pre.users

(* the object the handler hands to schema.parse, and the schema *)
ParseInput(req) ==
  CASE req.op \in {"create", "patch_profile", "patch_settings"} ->
         Spread("user_id", req.id, req.body)
    [] req.op = "comment" -> Spread("project_id", req.id, req.body)
    [] OTHER -> req.body

ParseSchema(req) ==
  CASE req.op = "register" -> createUserInputSchema
    [] req.op = "patch_profile" -> updateUserProfileInputSchema
    [] req.op = "patch_settings" -> createUserSettingsInputSchema
    [] req.op = "comment" -> createCommentInputSchema
    [] OTHER -> CreateSchema(req.kind)

Validates(req) == req.op \in {"register", "patch_profile", "patch_settings", "comment",
                              "create", "patch"}
PayloadValid(req) == ParseOk(ParseSchema(req), ParseInput(req))

WriteEvents == {"INSERT", "UPDATE", "DELETE", "DELETE comments", "INSERT users",
                "INSERT user_profiles"}
QueryEvents == WriteEvents \cup {"SELECT users", "SELECT owner", "SELECT projects"}

Before(log, a, b) ==
  \A i, j \in DOMAIN log : (log[i] = a /\ log[j] = b) => i < j

(* C1: a PATCH or DELETE of an existing resource by an authenticated principal *)
(* who is not its owner is answered 403 FORBIDDEN, whatever the body, and the  *)
(* store is as it was.                                                         *)
C1_ForeignMutationForbidden ==
  \A r \in SlotIds :
    LET req == reqs[r] IN
      (/\ Done(req)
       /\ req.op \in {"patch", "delete"}
       /\ AuthenticatedAs(req, req.token.sub)
       /\ req.id \in DOMAIN req.pre[req.kind]
       /\ req.pre[req.kind][req.id].user_id # req.token.sub)
      => (req.status = 403 /\ req.code = "FORBIDDEN" /\ db = req.pre)

C1_Witness ==
  \E r \in SlotIds :
    LET req == reqs[r] IN
      /\ Done(req)
      /\ req.op = "patch"
      /\ req.kind = "projects"
      /\ AuthenticatedAs(req, "user2")
      /\ req.id = "project1"
      /\ PayloadValid(req)
      /\ req.status = 403

(* C2: a creation that succeeds stores a row owned by the authenticated        *)
(* principal, whatever the body carries.                                       *)
C2_CreatedRowOwnedByPrincipal ==
  \A r \in SlotIds :
    LET req == reqs[r] IN
      (Done(req) /\ req.op = "create" /\ req.status = 201)
      => (/\ req.gen \in DOMAIN db[req.kind]
          /\ db[req.kind][req.gen].user_id = req.token.sub)

(* C3: a settings or profile PATCH of an authenticated principal leaves every  *)
(* other user's Settings and Profile rows as they were.                        *)
C3_OnlyOwnSettingsAndProfile ==
  \A r \in SlotIds :
    LET req == reqs[r] IN
      (/\ Active(req)
       /\ req.op \in {"patch_settings", "patch_profile"})
      => \A u \in DOMAIN req.pre.users \ {req.token.sub} :
           /\ (u \in DOMAIN db.user_settings) = (u \in DOMAIN req.pre.user_settings)
           /\ u \in DOMAIN db.user_settings =>
                db.user_settings[u] = req.pre.user_settings[u]
           /\ u \in DOMAIN db.user_profiles =>
                db.user_profiles[u] = req.pre.user_profiles[u]

(* C4: a PATCH or DELETE by an authenticated principal of an id that has no    *)
(* row is answered 404 with the resource's not-found code, never 403.          *)
C4_MissingIsNotFound ==
  \A r \in SlotIds :
    LET req == reqs[r] IN
      (/\ Done(req)
       /\ req.op \in {"patch", "delete"}
       /\ AuthenticatedAs(req, req.token.sub)
       /\ req.id \notin DOMAIN req.pre[req.kind])
      => (req.status = 404 /\ req.code # "FORBIDDEN" /\ db = req.pre)

C4_Witness ==
  \E r \in SlotIds :
    LET req == reqs[r] IN
      /\ Done(req)
      /\ req.op = "delete"
      /\ req.kind = "experience_timeline"
      /\ AuthenticatedAs(req, "user2")
      /\ req.id = NoSuchId
      /\ req.status = 404
      /\ req.code = "EXPERIENCE_NOT_FOUND"

(* C5: a protected request whose token is malformed, tampered with or expired  *)
(* never reaches its handler, never has a principal, changes nothing, and      *)
(* ends with 403 AUTH_TOKEN_INVALID.                                           *)
C5_BadTokenRejected ==
  \A r \in SlotIds :
    LET req == reqs[r] IN
      (/\ Active(req)
       /\ IsProtected(req)
       /\ \/ req.token.form = "malformed"
          \/ req.token.form = "jwt" /\ (req.token.sig = "tampered" \/ req.token.exp = "expired"))
      => (/\ "handler" \notin Stages(req)
          /\ req.user = NULL
          /\ db = req.pre
          /\ Done(req) => (req.status = 403 /\ req.code = "AUTH_TOKEN_INVALID"))

C5_Witness ==
  \E r \in SlotIds :
    LET req == reqs[r] IN
      /\ Done(req)
      /\ req.op = "delete"
      /\ req.token = Jwt("good", "expired", "user1")
      /\ req.id \in DOMAIN db[req.kind]
      /\ db[req.kind][req.id].user_id = "user1"
      /\ req.status = 403

C8_ValidationBeforeOwnership ==
  \A r \in SlotIds :
    LET req == reqs[r] IN
      (/\ Active(req)
       /\ req.op = "patch"
       /\ AuthenticatedAs(req, req.token.sub)
       /\ ~PayloadValid(req))
      => (/\ "SELECT owner" \notin Stages(req)
          /\ Done(req) => req.status \notin {403, 404})

(* C8: the stages of a protected request run in the order AuthGuard,           *)
(* OwnershipEnforcer, Validator, PersistenceGateway: the ownership check comes *)
(* before validation and validation before every write.  A request with a      *)
(* malformed payload writes nothing, and a PATCH with a malformed payload is   *)
(* answered 404 on a missing resource and 403 on a foreign one.                *)
C8_OwnershipBeforeValidation ==
  \A r \in SlotIds :
    LET req == reqs[r] IN
      (Active(req) /\ IsProtected(req))
      => (/\ Before(req.log, "jwt.verify", "ownership")
          /\ Before(req.log, "SELECT users", "ownership")
          /\ Before(req.log, "ownership", "parse")
          /\ \A w \in WriteEvents : Before(req.log, "ownership", w)
          /\ (Validates(req) /\ Stages(req) \cap WriteEvents # {}) =>
               (/\ "parse" \in Stages(req)
                /\ \A w \in WriteEvents : Before(req.log, "parse", w))
          /\ (Validates(req) /\ ~PayloadValid(req)) =>
               (Stages(req) \cap WriteEvents = {} /\ db = req.pre)
          /\ (/\ Done(req)
              /\ req.op = "patch"
              /\ AuthenticatedAs(req, req.token.sub)
              /\ ~PayloadValid(req)) =>
               (/\ req.id \notin DOMAIN req.pre[req.kind] => req.status = 404
                /\ (/\ req.id \in DOMAIN req.pre[req.kind]
                    /\ req.pre[req.kind][req.id].user_id # req.token.sub) =>
                     req.status = 403))

C8_Witness ==
  \E r \in SlotIds :
    LET req == reqs[r] IN
      /\ Done(req)
      /\ req.op = "patch"
      /\ req.kind = "projects"
      /\ AuthenticatedAs(req, "user1")
      /\ req.id = "project2"
      /\ ~PayloadValid(req)
      /\ req.log = <<"jwt.verify", "SELECT users", "handler", "SELECT owner", "ownership">>
      /\ req.status = 403

(* C9: a payload that fails its schema is answered 400, never 500, and nothing *)
(* is written.                                                                 *)
C9_InvalidPayloadIs400 ==
  \A r \in SlotIds :
    LET req == reqs[r] IN
      (/\ Done(req)
       /\ Validates(req)
       /\ "parse" \in Stages(req)
       /\ ~PayloadValid(req))
      => (req.status = 400 /\ db = req.pre)

(* C10: a successful PATCH changes exactly the fields its payload carries: an  *)
(* omitted field keeps its stored value, a null field is stored as null; and a *)
(* PATCH of a Project by its owner with only a title succeeds.                 *)
C10_PatchIsPartial ==
  \A r \in SlotIds :
    LET req == reqs[r] IN
      /\ (/\ Done(req)
          /\ req.op = "patch"
          /\ req.status = 200
          /\ req.id \in DOMAIN req.pre[req.kind]) =>
           \A f \in DOMAIN req.pre[req.kind][req.id] \cap DOMAIN req.body :
             /\ req.body[f] = UNDEF => db[req.kind][req.id][f] = req.pre[req.kind][req.id][f]
             /\ req.body[f] = NULL => db[req.kind][req.id][f] = NULL
      /\ (/\ Done(req)
          /\ req.op = "patch"
          /\ req.kind = "projects"
          /\ AuthenticatedAs(req, req.token.sub)
          /\ req.id \in DOMAIN req.pre.projects
          /\ req.pre.projects[req.id].user_id = req.token.sub
          /\ req.body = [user_id |-> UNDEF, title |-> "X", description |-> UNDEF,
                         images |-> UNDEF, project_url |-> UNDEF]) =>
           req.status = 200

(* C13: a registration whose email equals a registered email up to letter   *)
(* case is answered 400 USER_ALREADY_EXISTS, not 500, and creates no User or  *)
(* Profile row.                                                               *)
C13_CaseInsensitiveConflict ==
  \A r \in SlotIds :
    LET req == reqs[r] IN
      (/\ Done(req)
       /\ req.op = "register"
       /\ PayloadValid(req)
       /\ \E u \in DOMAIN req.pre.users :
            req.pre.users[u].email = LowerTrim(req.body.email))
      => (/\ req.status = 400
          /\ req.code = "USER_ALREADY_EXISTS"
          /\ db.users = req.pre.users
          /\ db.user_profiles = req.pre.user_profiles)

(* C14: in every reachable state every User row has exactly one Profile row,  *)
(* and a registration that does not end in success leaves no User row.        *)
C14_UserAndProfileTogether ==
  /\ DOMAIN db.users = DOMAIN db.user_profiles
  /\ \A r \in SlotIds :
       LET req == reqs[r] IN
         (Done(req) /\ req.op = "register" /\ req.status # 200)
         => db.users = req.pre.users

(* the request was sent by the owner of the row or account it addresses *)
ByOwner(req) ==
  /\ AuthenticatedAs(req, req.token.sub)
  /\ IF req.op \in {"patch", "delete"}
     THEN /\ req.id \in DOMAIN req.pre[req.kind]
          /\ req.pre[req.kind][req.id].user_id = req.token.sub
     ELSE req.id = req.token.sub

(* C11: a PATCH with a valid payload sent by the owner and sent again after   *)
(* its answer gets the same status both times, and the second application     *)
(* leaves the store as the first left it.                                     *)
C11_PatchIdempotent ==
  LET first == reqs[Slot(1)]
      again == reqs[Slot(2)]
  IN (/\ Done(first)
      /\ Done(again)
      /\ first.op \in {"patch", "patch_profile", "patch_settings"}
      /\ ByOwner(first)
      /\ PayloadValid(first))
     => (/\ again.status = first.status
         /\ db = again.pre)

C11_Witness ==
  LET first == reqs[Slot(1)]
      again == reqs[Slot(2)]
  IN /\ Done(first)
     /\ Done(again)
     /\ first.op = "patch"
     /\ first.kind = "blog_posts"
     /\ first.id = "post1"
     /\ ByOwner(first)
     /\ first.body.title = "X"
     /\ first.status = 200
     /\ again.status = 200
     /\ again.pre.blog_posts["post1"] # first.pre.blog_posts["post1"]
     /\ db.blog_posts["post1"].title = "X"

(* C12: whenever the owner's DELETE of a project is answered 204, the project *)
(* row is gone and no comment row refers to it, however comment requests for  *)
(* the project interleave; the comments are deleted before the project row.   *)
C12_DeleteLeavesNoComments ==
  \A r \in SlotIds :
    LET req == reqs[r] IN
      (Done(req) /\ req.op = "delete" /\ req.kind = "projects" /\ req.status = 204)
      => (/\ req.id \notin DOMAIN db.projects
          /\ \A c \in DOMAIN db.comments : db.comments[c].project_id # req.id
          /\ "DELETE comments" \in Stages(req)
          /\ Before(req.log, "DELETE comments", "DELETE"))

C12_Witness ==
  \E r, s \in SlotIds :
    LET del == reqs[r]
        com == reqs[s]
    IN /\ Done(del)
       /\ del.op = "delete"
       /\ del.id = "project1"
       /\ del.status = 204
       /\ Done(com)
       /\ com.op = "comment"
       /\ com.id = "project1"
       /\ com.body.project_id = UNDEF
       /\ com.status = 201
       /\ com.gen \notin DOMAIN del.pre.comments
       /\ com.gen \notin DOMAIN db.comments

(* C15: in every reachable state a user has at most one Analytics row, also  *)
(* when first reads of the user's analytics run together.                     *)
C15_OneAnalyticsRowPerUser ==
  \A u \in DOMAIN db.users : Cardinality(AnalyticsRows(db.analytics, u)) <= 1

(* the contact requests for user u that have been answered and whose message  *)
(* is stored                                                                  *)
StoredContacts(u) ==
  {r \in SlotIds : /\ Done(reqs[r])
                   /\ reqs[r].op = "contact"
                   /\ reqs[r].id = u
                   /\ reqs[r].gen \in DOMAIN db.visitor_messages}

(* C16: for a user with an Analytics row, once k contact requests have been   *)
(* accepted, in any interleaving, interaction_data.contacts has grown by      *)
(* exactly k and the other keys of interaction_data are as they were.         *)
C16_ContactsCounted ==
  \A a \in DOMAIN RegisteredDb.analytics :
    LET was == RegisteredDb.analytics[a].interaction_data
        now == db.analytics[a].interaction_data
    IN /\ JsonbContacts(now) =
            JsonbContacts(was) + Cardinality(StoredContacts(RegisteredDb.analytics[a].user_id))
       /\ ContactsBase(now) = ContactsBase(was)

(* C17: the owner's GET of the analytics of a user with no Analytics row is   *)
(* answered 200 with visit_count 0, an empty popular_projects structure and   *)
(* zeroed interaction counters, and the same GET sent again is answered with  *)
(* the same snapshot and creates no row.                                      *)
C17_FirstReadIsZeroed ==
  LET first == reqs[Slot(1)]
      again == reqs[Slot(2)]
  IN (/\ Done(first)
      /\ first.op = "get_analytics"
      /\ ByOwner(first)
      /\ AnalyticsRows(first.pre.analytics, first.id) = {})
     => (/\ first.status = 200
         /\ first.result.row.visit_count = 0
         /\ first.result.row.popular_projects = InitialPopularProjects
         /\ first.result.row.interaction_data = InitialInteractionData
         /\ Done(again) => (/\ again.status = 200
                            /\ again.result = first.result
                            /\ db = again.pre))

(* C18: a project creation with a valid payload returns an entity whose title *)
(* is the submitted title and which the GET of the generated id, sent next,   *)
(* returns field for field.                                                   *)
C18_CreateThenGetAgree ==
  LET first == reqs[Slot(1)]
      again == reqs[Slot(2)]
  IN (/\ Done(first)
      /\ first.op = "create"
      /\ first.kind = "projects"
      /\ ByOwner(first)
      /\ PayloadValid(first))
     => (/\ first.status = 201
         /\ first.result.row.title = first.body.title
         /\ Done(again) => (/\ again.status = 200
                            /\ again.result = first.result))

(* the file's extension and its declared content type both denote an image *)
IsImageFile(file) ==
  /\ ToLowerCase(ExtName(file.originalname)) \in {".jpeg", ".jpg", ".png", ".gif", ".webp"}
  /\ file.mimetype \in {"image/jpeg", "image/png", "image/gif", "image/webp"}

(* C19: an upload is stored only when its extension and its content type both *)
(* denote an image; any other file sent by an authenticated user is answered  *)
(* 400 in the error envelope and nothing is written.                          *)
C19_NonImageRejected ==
  \A r \in SlotIds :
    LET req == reqs[r] IN
      (/\ Done(req)
       /\ req.op = "upload"
       /\ AuthenticatedAs(req, req.token.sub)
       /\ req.body # NoFile
       /\ ~IsImageFile(req.body))
      => (/\ req.status = 400
          /\ req.code # "-"
          /\ disk = req.predisk)

(* C20: the URL a successful upload returns, resolved through the /uploads    *)
(* static mount, is the path the file was written to, whatever the category.  *)
C20_UrlAddressesStoredFile ==
  \A r \in SlotIds :
    LET req == reqs[r] IN
      (Done(req) /\ req.op = "upload" /\ req.status = 200)
      => (/\ StaticResolve(req.result.url) = req.data.destination \o <<req.data.filename>>
          /\ StaticResolve(req.result.url) \in disk)

(* the users row that holds an email, in a store *)
UsersWithEmail(store, email) == {u \in DOMAIN store.users : store.users[u].email = email}

(* C21: a login with the email of an existing user and a credential that    *)
(* differs from the stored one is answered 400 INVALID_CREDENTIALS without a *)
(* token; with the stored credential it is answered 200 with a token whose   *)
(* subject is that user's id.                                                *)
C21_LoginChecksCredential ==
  \A r \in slots :
    LET req == reqs[r] IN
      (Done(req) /\ req.op = "login" /\ req.body.password # UNDEF) =>
        \A u \in UsersWithEmail(req.pre, req.body.email) :
          IF req.body.password # req.pre.users[u].password_hash
          THEN /\ req.status = 400
               /\ req.code = "INVALID_CREDENTIALS"
               /\ "token" \notin DOMAIN req.result
          ELSE /\ req.status = 200
               /\ "token" \in DOMAIN req.result
               /\ req.result.token.sub = u

(* the store rejected the INSERT into user_profiles of a registration *)
ProfileInsertRejected(req) ==
  /\ req.status = 500
  /\ "INSERT users" \in Stages(req)
  /\ "INSERT user_profiles" \notin Stages(req)
  /\ req.gen \in DOMAIN db.users

(* the follow-up request presents the token of the first response and has    *)
(* passed authenticateToken as the user `u`, or nothing has been presented    *)
TokenAuthenticatesAs(first, u) ==
  LET next == reqs[Slot(2)] IN
    (next.op = "patch_profile" /\ next.token = first.result.token
       /\ next.pc \notin {"idle", "auth", "auth_lookup"})
    => (next.user = u /\ next.code \notin {"AUTH_TOKEN_MISSING", "AUTH_TOKEN_INVALID"})

C25_ResetDoesNotRevealAccounts ==
  \A r \in slots :
    LET req == reqs[r] IN
      (/\ Active(req)
       /\ req.op = "password_reset"
       /\ IsString(req.body.email)
       /\ req.body.email # "")
      => (/\ db = req.pre
          /\ Done(req) =>
               (/\ req.status = 200
                /\ req.result = [message |-> ResetMessage(TRUE)]))

C25_Witness ==
  \E r \in slots :
    LET req == reqs[r] IN
      /\ Done(req)
      /\ req.op = "password_reset"
      /\ UsersWithEmail(db, LowerTrim(req.body.email)) = {}
      /\ req.body.email = "new@example.com"
      /\ "SELECT users" \in Stages(req)
      /\ req.status = 200

AuthCodes == {"AUTH_TOKEN_MISSING", "AUTH_TOKEN_INVALID"}
OwnershipCodes == {"FORBIDDEN"} \cup {NotFoundCode(kind) : kind \in Kinds}
HandlerEvents == {"handler", "ownership", "SELECT owner", "parse"}

(* the stages that follow the one a failed request stopped at did not run *)
StoppedAtFailure(req) ==
  /\ req.code \in AuthCodes => Stages(req) \cap (HandlerEvents \cup WriteEvents) = {}
  /\ req.code \in OwnershipCodes => Stages(req) \cap ({"parse"} \cup WriteEvents) = {}
  /\ (Validates(req) /\ "parse" \in Stages(req) /\ ~PayloadValid(req)) =>
       (Stages(req) \cap WriteEvents = {} /\ req.log[Len(req.log)] = "parse")

(* C23: a request is a chain with early exit: a request answered by a failing  *)
(* stage (AuthGuard, ownership or existence check, validation, persistence)    *)
(* has run no later stage and issued no further statement, a response is sent  *)
(* exactly when the chain ends, and an answered request does nothing more.     *)
C23_EarlyExit ==
  /\ [](\A r \in SlotIds :
          LET req == reqs[r] IN
            /\ (req.status # 0) <=> Done(req)
            /\ Done(req) => StoppedAtFailure(req))
  /\ [][\A r \in SlotIds :
          (Done(reqs[r]) /\ reqs'[r] # reqs[r]) => (reqs'[r] = Idle /\ db' = db)]_vars

C23_Witness ==
  \E r \in SlotIds :
    LET req == reqs[r] IN
      /\ Done(req)
      /\ req.op = "patch"
      /\ "SELECT owner" \in Stages(req)
      /\ ~PayloadValid(req)
      /\ req.log[Len(req.log)] = "parse"
      /\ req.status = 500
      /\ db = req.pre

(* C24: a PATCH whose UPDATE matches no row, the resource having been deleted  *)
(* after the ownership lookup, is answered 404.                                *)
C24_ZeroRowUpdateIsNotFound ==
  [][\A r \in SlotIds :
       (/\ reqs[r].op = "patch"
        /\ reqs[r].pc = "await_update"
        /\ reqs'[r].pc = "done"
        /\ reqs[r].id \notin DOMAIN db[reqs[r].kind])
       => reqs'[r].status = 404]_vars

(* C26: every comment references an existing project: a comment request for a *)
(* project that does not exist is answered 404 and stores nothing, and a      *)
(* stored comment's project_id is the path id the handler checked, whatever   *)
(* the body contains and however the request interleaves with a DELETE.       *)
C26_CommentOnCheckedProject ==
  /\ \A c \in DOMAIN db.comments : db.comments[c].project_id \in DOMAIN db.projects
  /\ \A r \in SlotIds :
       LET req == reqs[r] IN
         (Active(req) /\ req.op = "comment") =>
           /\ req.code = "PROJECT_NOT_FOUND" =>
                (req.status = 404 /\ req.gen \notin DOMAIN db.comments)
           /\ req.gen \in DOMAIN db.comments =>
                db.comments[req.gen].project_id = req.id

(* the comments of a store that are on a project *)
CommentsOn(store, project) ==
  {c \in DOMAIN store.comments : store.comments[c].project_id = project}

(* C27: a DELETE of a project that is answered with a failure leaves the      *)
(* project row and all of its comments as they were when it arrived.          *)
C27_FailedDeleteChangesNothing ==
  \A r \in SlotIds :
    LET req == reqs[r] IN
      (/\ Done(req)
       /\ req.op = "delete"
       /\ req.kind = "projects"
       /\ req.status # 204
       /\ \A s \in SlotIds \ {r} : ~(reqs[s].op = "delete" /\ reqs[s].id = req.id))
      => (/\ req.id \in DOMAIN req.pre.projects =>
               (req.id \in DOMAIN db.projects
                  /\ db.projects[req.id] = req.pre.projects[req.id])
          /\ \A c \in CommentsOn(req.pre, req.id) :
               c \in DOMAIN db.comments /\ db.comments[c] = req.pre.comments[c])

(* C28: the message a contact request stores names the user of the path, who   *)
(* was checked to exist, whatever the body contains, and the analytics rows    *)
(* the request updates are those of that user.                                 *)
C28_MessageForPathUser ==
  \A r \in SlotIds :
    LET req == reqs[r] IN
      (/\ Active(req)
       /\ req.op = "contact"
       /\ req.gen \in DOMAIN db.visitor_messages)
      => (/\ req.id \in DOMAIN db.users
          /\ db.visitor_messages[req.gen].user_id = req.id)

(* C29: a contact request for a user without an analytics row stores the       *)
(* message, is answered with the success acknowledgment and leaves the         *)
(* analytics table as it was; a row created later starts with contacts 0.      *)
C29_ContactCreatesNoAnalyticsRow ==
  \A r \in SlotIds :
    LET req == reqs[r] IN
      (/\ Done(req)
       /\ req.op = "contact"
       /\ req.id \in DOMAIN req.pre.users
       /\ req.body.user_id = UNDEF
       /\ AnalyticsRows(req.pre.analytics, req.id) = {}
       /\ \A s \in SlotIds \ {r} : ~Active(reqs[s]))
      => (/\ req.gen \in DOMAIN db.visitor_messages
          /\ db.analytics = req.pre.analytics
          /\ req.status = 200)

(* C30: the owner of an existing Project, Skill, TimelineEntry, Testimonial or *)
(* BlogPost row never changes, whatever the bodies of the requests contain;    *)
(* Profile and Settings rows are keyed by their owner.                         *)
C30_OwnerNeverChanges ==
  [][/\ \A kind \in Kinds :
          \A id \in DOMAIN db[kind] \cap DOMAIN db'[kind] :
            db'[kind][id].user_id = db[kind][id].user_id
     /\ DOMAIN db.user_profiles \subseteq DOMAIN db'.user_profiles
     /\ DOMAIN db.user_settings \subseteq DOMAIN db'.user_settings]_vars

C30_Witness ==
  \E r \in SlotIds :
    LET req == reqs[r] IN
      /\ Done(req)
      /\ req.op = "patch"
      /\ req.status = 200
      /\ req.body.user_id \notin {UNDEF, req.user}
      /\ "UPDATE" \in Stages(req)
      /\ db[req.kind][req.id] # req.pre[req.kind][req.id]
      /\ db[req.kind][req.id].user_id = req.user
====
